---- MODULE Spec2Model ----
(***************************************************************************)
(* Volatility breakout screener: the candle store and the streaming        *)
(* reconciliation of src/lib/delta-client.ts, the alert engine of          *)
(* src/app/page.tsx and the legacy polling alert check of                  *)
(* frontend/js/app.js.                                                     *)
(*                                                                         *)
(* Times are bar indices (one unit = one candle period); prices and        *)
(* volumes are small integers.                                             *)
(***************************************************************************)
EXTENDS Integers, Sequences, FiniteSets, TLC

VARIABLES
    candleStore,        \* delta-client.ts: Map<symbol, Map<timeframe, Candle[]>>
    lastCall,           \* the store call that produced the current state, with its return value
    watchlist,          \* page.tsx: useState watchlist (array of symbols)
    enabledTimeframes,  \* page.tsx: useState enabledTimeframes (array, TIMEFRAMES order)
    screenerData,       \* page.tsx: useState screenerData
    alerts,             \* page.tsx: useState alerts (newest first)
    previousData,       \* page.tsx: previousDataRef.current
    isInitialLoad,      \* page.tsx: isInitialLoadRef.current
    fetches,            \* page.tsx: the fetchData invocations in flight
    lastEvent,          \* the page handler that produced the current state, with what it did
    app,                \* frontend/js/app.js: the fields of the App object
    storedAlerts,       \* frontend/js: Storage alerts in localStorage (newest first)
    lastRefresh,        \* what the last step of the legacy App did
    computedKeys,       \* history: the keys for which a snapshot has been handed to the alert check
    count,              \* history: how many ticks and refreshes have been started
    deltaWebSocket,     \* delta-websocket.ts: the fields of the DeltaWebSocket singleton
    wsConnected,        \* page.tsx: useState wsConnected
    wsInitialized,      \* page.tsx: wsInitializedRef.current
    newCandleReports    \* history: how often updateCandle has returned true, by key and candle time

storeVars == <<candleStore, lastCall>>

pageVars == <<watchlist, enabledTimeframes, screenerData, alerts, previousData,
              isInitialLoad, fetches, lastEvent>>

legacyVars == <<app, storedAlerts, lastRefresh>>

historyVars == <<computedKeys, count>>

socketVars == <<deltaWebSocket, wsConnected, wsInitialized>>

vars == <<candleStore, lastCall, watchlist, enabledTimeframes, screenerData, alerts,
          previousData, isInitialLoad, fetches, lastEvent, app, storedAlerts,
          lastRefresh, computedKeys, count, deltaWebSocket, wsConnected, wsInitialized,
          newCandleReports>>

----------------------------------------------------------------------------
(* Bounds and program constants *)

MAX_CANDLES == 250

\* CONFIG of indicators.ts
BB_PERIOD == 20

ATR_PERIOD == 14

SQUEEZE_PERCENTILE_THRESHOLD == 20

TIGHT_SQUEEZE_PERCENTILE_THRESHOLD == 10

BREAKOUT_PERCENTILE_THRESHOLD == 70

LOOKBACK_PERIOD == 100

SQUEEZE_LOOKBACK_BARS == 10

\* how many candles beyond MAX_CANDLES the largest history batch holds
MaxOver == 1

\* how many bars past the end of the fetched history a streaming tick may lie
MaxAhead == 1

\* a field absent from a payload (JavaScript undefined)
Missing == -1

\* the result of parseFloat on an absent field
NaN == -2

NULL == "null"

Symbols == {"BTCUSD", "ETHUSD"}

Timeframes == {"1m"}

\* the aligned end bar of a history request (fetchCandles: end)
EndBar == 2 * MAX_CANDLES

----------------------------------------------------------------------------
(* Maps (JavaScript Map / object) as functions with a finite domain *)

EmptyMap == [x \in {} |-> NULL]

MapSet(m, k, v) == [x \in (DOMAIN m) \cup {k} |-> IF x = k THEN v ELSE m[x]]

MapDelete(m, k) == [x \in (DOMAIN m) \ {k} |-> m[x]]

----------------------------------------------------------------------------
(* Candles *)

Candle(t, p, v) ==
    [time |-> t, open |-> p, high |-> p, low |-> p, close |-> p, volume |-> v]

NoCandle == Candle(0, 0, 0)

\* Array.prototype.slice(-n)
SliceLast(s, n) == IF Len(s) > n THEN SubSeq(s, Len(s) - n + 1, Len(s)) ELSE s

\* the raw history payloads the exchange may answer with: a shape and a length
\*   asc   ascending times ending at EndBar
\*   desc  the same candles, newest first
\*   dup   ascending, the last two candles carrying the same time
\*   bad   a candle with volume 0, a candle without open, a candle without time
\*   calm  ascending, closes alternating 4 and 6 and then flat at 5 for the
\*         last BB_PERIOD bars (the bands narrow: a squeeze)
\*   surge calm, followed by one last candle closing at 8 (above the upper band)
\*   drop  calm, followed by one last candle closing at 2 (below the lower band)
\*   swing flat at 5 and then alternating 4 and 6 for the last 50 bars
\*   burst flat at 5 and then alternating 4 and 6 for the last 5 bars
\*   settle surge, followed by one more candle closing at 5
\*   double surge, followed by one more candle closing at 8
\*   deep  closes alternating 3 and 7, then flat at 5 for BB_PERIOD bars, and
\*         one last candle closing at 8
\*   late  flat at 5, but for bar LOOKBACK_PERIOD + 1 and the last bar, which
\*         close at 8 (a breakout some bars after the squeeze ended)
\*   fade  closes alternating 8 and 2 for 30 bars, 7 and 3 for 50 bars, flat
\*         at 5 for 5 bars, alternating 3 and 7 for 16 bars, then flat at 5
\*         (volatility that fades out: a long squeeze)
\*   spike closes alternating 4 and 6, the middle candle closing at 60
\*   edge  closes alternating 4 and 6, the middle candle closing at 26 and
\*         the last at 60
\*   flat  closes at 5, the middle candle closing at 60
\*   jumble spike, newest first
RawBatch(shape, n) ==
    [i \in 1..n |->
        CASE shape = "asc"  -> Candle(EndBar - n + i, 1, 1)
          [] shape = "spike" ->
                Candle(EndBar - n + i,
                       IF i = (n + 1) \div 2 THEN 60 ELSE IF i % 2 = 1 THEN 4 ELSE 6, 1)
          [] shape = "edge" ->
                Candle(EndBar - n + i,
                       IF i = (n + 1) \div 2 THEN 26
                       ELSE IF i = n THEN 60
                       ELSE IF i % 2 = 1 THEN 4 ELSE 6, 1)
          [] shape = "flat" ->
                Candle(EndBar - n + i, IF i = (n + 1) \div 2 THEN 60 ELSE 5, 1)
          [] shape = "jumble" ->
                Candle(EndBar - i + 1,
                       IF i = (n + 1) \div 2 THEN 60 ELSE IF i % 2 = 1 THEN 4 ELSE 6, 1)
          [] shape = "desc" -> Candle(EndBar - i + 1, 1, 1)
          [] shape = "dup"  -> IF i = n THEN Candle(EndBar, 2, 1)
                               ELSE Candle(EndBar - n + i + 1, 1, 1)
          [] shape = "calm" ->
                Candle(EndBar - n + i,
                       IF i > n - BB_PERIOD THEN 5 ELSE IF i % 2 = 1 THEN 4 ELSE 6, 1)
          [] shape = "surge" ->
                Candle(EndBar - n + i,
                       IF i = n THEN 8
                       ELSE IF i > n - 1 - BB_PERIOD THEN 5
                       ELSE IF i % 2 = 1 THEN 4 ELSE 6, 1)
          [] shape = "drop" ->
                Candle(EndBar - n + i,
                       IF i = n THEN 2
                       ELSE IF i > n - 1 - BB_PERIOD THEN 5
                       ELSE IF i % 2 = 1 THEN 4 ELSE 6, 1)
          [] shape = "swing" ->
                Candle(EndBar - n + i,
                       IF i <= n - 50 THEN 5 ELSE IF i % 2 = 1 THEN 4 ELSE 6, 1)
          [] shape = "burst" ->
                Candle(EndBar - n + i,
                       IF i <= n - 5 THEN 5 ELSE IF i % 2 = 1 THEN 4 ELSE 6, 1)
          [] shape = "settle" ->
                Candle(EndBar - n + i,
                       IF i = n THEN 5
                       ELSE IF i = n - 1 THEN 8
                       ELSE IF i > n - 2 - BB_PERIOD THEN 5
                       ELSE IF i % 2 = 1 THEN 4 ELSE 6, 1)
          [] shape = "double" ->
                Candle(EndBar - n + i,
                       IF i >= n - 1 THEN 8
                       ELSE IF i > n - 2 - BB_PERIOD THEN 5
                       ELSE IF i % 2 = 1 THEN 4 ELSE 6, 1)
          [] shape = "deep" ->
                Candle(EndBar - n + i,
                       IF i = n THEN 8
                       ELSE IF i > n - 1 - BB_PERIOD THEN 5
                       ELSE IF i % 2 = 1 THEN 3 ELSE 7, 1)
          [] shape = "late" ->
                Candle(EndBar - n + i,
                       IF i = LOOKBACK_PERIOD + 1 \/ i = n THEN 8 ELSE 5, 1)
          [] shape = "fade" ->
                Candle(EndBar - n + i,
                       IF i <= 30 THEN (IF i % 2 = 1 THEN 8 ELSE 2)
                       ELSE IF i <= 80 THEN (IF i % 2 = 1 THEN 7 ELSE 3)
                       ELSE IF i <= 85 THEN 5
                       ELSE IF i <= 101 THEN (IF i % 2 = 1 THEN 3 ELSE 7)
                       ELSE 5, 1)
          [] shape = "bad"  -> IF i = 1 THEN Candle(EndBar - n + i, 1, 0)
                               ELSE IF i = 2
                               THEN [Candle(EndBar - n + i, 1, 1) EXCEPT !.open = Missing]
                               ELSE Candle(Missing, 1, 1)]

Batches ==
    { <<"asc", 0>>, <<"desc", 2>>, <<"dup", 3>>, <<"bad", 3>>,
      <<"asc", MAX_CANDLES - 1>>, <<"asc", MAX_CANDLES>>,
      <<"asc", MAX_CANDLES + MaxOver>> }

\* the payloads the screener is fed with: nothing, too short a history for
\* an analysis, a history ending in a squeeze, one ending in a breakout
ScreenerBatches ==
    { <<"asc", 0>>, <<"calm", BB_PERIOD - 1>>, <<"calm", LOOKBACK_PERIOD>>,
      <<"surge", LOOKBACK_PERIOD + 1>> }

\* the payloads the page is fed with
PageBatches == ScreenerBatches \ {<<"asc", 0>>}

\* the payloads the alert engine is fed with: too short a history, and
\* histories ending in a tight squeeze, a breakout out of a squeeze, a normal
\* regime, an expansion, a squeeze without signal, a breakout in a tight squeeze
EngineBatches ==
    { <<"calm", BB_PERIOD - 1>>, <<"calm", LOOKBACK_PERIOD>>,
      <<"surge", LOOKBACK_PERIOD + 1>>, <<"swing", LOOKBACK_PERIOD>>,
      <<"burst", LOOKBACK_PERIOD>>, <<"settle", LOOKBACK_PERIOD + 2>>,
      <<"deep", LOOKBACK_PERIOD + 1>> }

\* how many candles beyond the minimum history the short windows hold
MaxExtra == 1

\* the histories the analysis functions are applied to: every length up to
\* the minimum history and a little beyond, flat and ending in a jump, and
\* the long histories that end in each regime and signal
AnalysisBatches ==
    {<<"calm", n>> : n \in 0..(BB_PERIOD + MaxExtra)}
    \cup {<<"surge", n>> : n \in 1..(BB_PERIOD + MaxExtra)}
    \cup EngineBatches
    \cup { <<"calm", LOOKBACK_PERIOD - 1>>, <<"surge", LOOKBACK_PERIOD>>,
           <<"drop", LOOKBACK_PERIOD + 1>>, <<"double", LOOKBACK_PERIOD + 2>>,
           <<"late", LOOKBACK_PERIOD + SQUEEZE_LOOKBACK_BARS>>,
           <<"late", LOOKBACK_PERIOD + SQUEEZE_LOOKBACK_BARS + 1>> }

\* the histories whose whole snapshot is looked at: windows with the minimum
\* history, between it and the lookback, and of the lookback and beyond
IndicatorBatches ==
    { <<"calm", BB_PERIOD>>, <<"surge", BB_PERIOD + 1>>, <<"calm", 2 * BB_PERIOD>>,
      <<"swing", LOOKBACK_PERIOD \div 2>>, <<"surge", LOOKBACK_PERIOD - 1>>,
      <<"calm", LOOKBACK_PERIOD - 1>>, <<"calm", LOOKBACK_PERIOD>>,
      <<"surge", LOOKBACK_PERIOD + 1>>, <<"swing", LOOKBACK_PERIOD + MaxExtra>> }

\* the histories a key holds when bars start to arrive: a fading history
\* one candle short of the full window, squeezes that begin at the last bars of a history
\* one short of the lookback and of the lookback, and a breakout
BarHistories ==
    { <<"fade", MAX_CANDLES - 1>>, <<"calm", LOOKBACK_PERIOD - 1>>, <<"calm", LOOKBACK_PERIOD>>,
      <<"surge", LOOKBACK_PERIOD + 1>> }

\* what the exchange may answer to the history request of a backfill: an
\* HTTP error status, a body that is not JSON, no candle, only invalid
\* candles, too short a history, and two histories long enough
BackfillBatches ==
    { <<"http error", 0>>, <<"not json", 0>>, <<"asc", 0>>, <<"bad", 2>>,
      <<"calm", BB_PERIOD - 1>>, <<"calm", LOOKBACK_PERIOD>>,
      <<"surge", LOOKBACK_PERIOD + 1>> }

NoBatch == <<"none", 0>>

----------------------------------------------------------------------------
(* fetchCandles: parse, validate, sort and outlier-filter a raw payload *)

\* c.time || 0
ParseTime(t) == IF t = Missing THEN 0 ELSE t

\* parseFloat(String(x))
ParseFloat(x) == IF x = Missing THEN NaN ELSE x

ParseCandle(c) ==
    [time |-> ParseTime(c.time), open |-> ParseFloat(c.open),
     high |-> ParseFloat(c.high), low |-> ParseFloat(c.low),
     close |-> ParseFloat(c.close), volume |-> ParseFloat(c.volume)]

\* x > 0 in JavaScript (false for NaN)
Gt0(x) == x # NaN /\ x > 0

ValidCandle(c) ==
    Gt0(c.volume) /\ Gt0(c.open) /\ Gt0(c.high) /\ Gt0(c.low) /\ Gt0(c.close)

\* the pairs <<position in the stably sorted array, index in the array>>
RankOf(keys) ==
    { <<Cardinality({j \in 1..Len(keys) : keys[j] < keys[i]
                                          \/ (keys[j] = keys[i] /\ j <= i)}), i>> :
        i \in 1..Len(keys) }

Permute(s, rank) == [k \in 1..Len(s) |-> s[CHOOSE i \in 1..Len(s) : <<k, i>> \in rank]]

\* Array.prototype.sort by the given keys: stable, ascending
SortWithKeys(s, keys) ==
    CHOOSE sorted \in {Permute(s, rank) : rank \in {RankOf(keys)}} : TRUE

\* candles.sort((a, b) => a.time - b.time)
SortByTime(s) ==
    CHOOSE sorted \in {SortWithKeys(s, keys) :
                          keys \in {[i \in 1..Len(s) |-> s[i].time]}} : TRUE

\* numbers.sort((a, b) => a - b)
SortNumbers(s) == SortWithKeys(s, s)

Abs(x) == IF x < 0 THEN -x ELSE x

\* candles.map(c => c.close)
Closes(candles) == [i \in 1..Len(candles) |-> candles[i].close]

\* sorted[Math.floor(sorted.length / 2)]
MiddleOf(sorted) == sorted[(Len(sorted) \div 2) + 1]

\* candles.map(c => Math.abs(c.close - median))
Deviations(candles, median) ==
    [i \in 1..Len(candles) |-> Abs(candles[i].close - median)]

\* candles.filter(c => Math.abs(c.close - median) <= threshold)
WithinThreshold(candles, median, threshold) ==
    LET keep(c) == Abs(c.close - median) <= threshold
    IN SelectSeq(candles, keep)

\* an outlier filter that cuts at 10 * mad exclusive
removeOutliers_strict(candles) ==
    IF Len(candles) > 10
    THEN LET median == MiddleOf(SortNumbers(Closes(candles)))
             mad == MiddleOf(SortNumbers(Deviations(candles, median)))
             keep(c) == Abs(c.close - median) < 10 * mad
         IN IF mad > 0 THEN SelectSeq(candles, keep) ELSE candles
    ELSE candles

\* the MAD outlier filter at the end of fetchCandles
removeOutliers(candles) ==
    IF Len(candles) > 10
    THEN CHOOSE result \in
            { IF mm[2] > 0 THEN WithinThreshold(candles, mm[1], 10 * mm[2]) ELSE candles :
                mm \in { <<median, MiddleOf(SortNumbers(Deviations(candles, median)))>> :
                            median \in {MiddleOf(SortNumbers(Closes(candles)))} } } : TRUE
    ELSE candles

\* ohlcData.map(parse).filter(valid)
ParsedValid(raw) == SelectSeq([i \in 1..Len(raw) |-> ParseCandle(raw[i])], ValidCandle)

fetchCandles(raw) ==
    IF Len(raw) = 0
    THEN <<>>
    ELSE CHOOSE result \in
            { removeOutliers(sorted) :
                sorted \in {SortByTime(valid) : valid \in {ParsedValid(raw)}} } : TRUE

\* the parsed batch of every payload, computed once
\* fetchCandles on what fetch answered: an error status throws, and so does
\* response.json() on a body that is not JSON; the catch returns []
fetchCandlesFrom(b) ==
    IF b[1] \in {"http error", "not json"}
    THEN <<>>
    ELSE fetchCandles(RawBatch(b[1], b[2]))

\* histories around the sizes and spreads the outlier filter tests
OutlierBatches ==
    { <<sh, n>> : sh \in {"spike", "edge", "flat", "jumble"}, n \in {10, 11, 12, 21} }
    \cup { <<"asc", 11>>, <<"bad", 3>>, <<"calm", LOOKBACK_PERIOD>> }

FetchedBatches ==
    [b \in OutlierBatches \cup Batches \cup ScreenerBatches \cup EngineBatches \cup AnalysisBatches
            \cup BackfillBatches \cup BarHistories \cup IndicatorBatches |->
        fetchCandlesFrom(b)]

Fetched(b) == FetchedBatches[b]

----------------------------------------------------------------------------
(* The candle store *)

\* storeCandles that keeps the whole batch (no slice(-MAX_CANDLES))
storeCandles_noSlice(store, symbol, timeframe, candles) ==
    LET symbolMap == IF symbol \in DOMAIN store THEN store[symbol] ELSE EmptyMap
    IN MapSet(store, symbol, MapSet(symbolMap, timeframe, candles))

storeCandles(store, symbol, timeframe, candles) ==
    LET symbolMap == IF symbol \in DOMAIN store THEN store[symbol] ELSE EmptyMap
    IN MapSet(store, symbol, MapSet(symbolMap, timeframe, SliceLast(candles, MAX_CANDLES)))

HasWindow(store, symbol, timeframe) ==
    symbol \in DOMAIN store /\ timeframe \in DOMAIN store[symbol]

\* null when no window is stored; an empty array is truthy and is returned
getStoredCandles(store, symbol, timeframe) ==
    IF HasWindow(store, symbol, timeframe) THEN store[symbol][timeframe] ELSE NULL

ReplaceLast(candles, c) == [candles EXCEPT ![Len(candles)] = c]

\* updateCandle with one of its comparisons or branches altered
updateCandleWith(store, symbol, timeframe, newCandle, bug) ==
    IF ~HasWindow(store, symbol, timeframe)
    THEN [store |-> store, ret |-> FALSE]
    ELSE LET candles == store[symbol][timeframe]
             put(w) == [store EXCEPT ![symbol][timeframe] = w]
             cap == IF bug = "shiftAtCap" THEN MAX_CANDLES - 1 ELSE MAX_CANDLES
             pushed == Append(candles, newCandle)
             appended(ret) ==
                 [store |-> put(IF Len(pushed) > cap THEN Tail(pushed) ELSE pushed),
                  ret |-> ret]
         IN IF Len(candles) = 0
            THEN [store |-> store, ret |-> FALSE]
            ELSE LET lastCandle == candles[Len(candles)]
                 IN IF newCandle.time = lastCandle.time
                    THEN CASE bug = "retTrueOnReplace" ->
                                [store |-> put(ReplaceLast(candles, newCandle)), ret |-> TRUE]
                           [] bug = "pushOnEqual" -> appended(FALSE)
                           [] bug = "appendOnGeq" -> appended(TRUE)
                           [] OTHER ->
                                [store |-> put(ReplaceLast(candles, newCandle)), ret |-> FALSE]
                    ELSE IF newCandle.time > lastCandle.time
                    THEN appended(TRUE)
                    ELSE IF bug = "replaceOnStale"
                    THEN [store |-> put(ReplaceLast(candles, newCandle)), ret |-> FALSE]
                    ELSE [store |-> store, ret |-> FALSE]

updateCandle_retTrueOnReplace(store, symbol, timeframe, newCandle) ==
    updateCandleWith(store, symbol, timeframe, newCandle, "retTrueOnReplace")

updateCandle_shiftAtCap(store, symbol, timeframe, newCandle) ==
    updateCandleWith(store, symbol, timeframe, newCandle, "shiftAtCap")

updateCandle_pushOnEqual(store, symbol, timeframe, newCandle) ==
    updateCandleWith(store, symbol, timeframe, newCandle, "pushOnEqual")

updateCandle_replaceOnStale(store, symbol, timeframe, newCandle) ==
    updateCandleWith(store, symbol, timeframe, newCandle, "replaceOnStale")

updateCandle_appendOnGeq(store, symbol, timeframe, newCandle) ==
    updateCandleWith(store, symbol, timeframe, newCandle, "appendOnGeq")

\* updateCandle: the store after the call and the value returned
updateCandle(store, symbol, timeframe, newCandle) ==
    IF ~HasWindow(store, symbol, timeframe)
    THEN [store |-> store, ret |-> FALSE]
    ELSE LET candles == store[symbol][timeframe]
             put(w) == [store EXCEPT ![symbol][timeframe] = w]
         IN IF Len(candles) = 0
            THEN [store |-> store, ret |-> FALSE]
            ELSE LET lastCandle == candles[Len(candles)]
                 IN IF newCandle.time = lastCandle.time
                    THEN [store |-> put(ReplaceLast(candles, newCandle)), ret |-> FALSE]
                    ELSE IF newCandle.time > lastCandle.time
                    THEN LET pushed == Append(candles, newCandle)
                         IN [store |-> put(IF Len(pushed) > MAX_CANDLES
                                           THEN Tail(pushed) ELSE pushed),
                             ret |-> TRUE]
                    ELSE [store |-> store, ret |-> FALSE]

clearSymbolFromStore(store, symbol) == MapDelete(store, symbol)

----------------------------------------------------------------------------
(* analyzeVolatility (src/lib/indicators.ts): the fields of the snapshot    *)
(* that the alert engine reads.  The code compares real numbers (means,     *)
(* standard deviations, band values); the model makes the same comparisons  *)
(* on integers: for the 20 closes ending at bar i, S is their sum           *)
(* (20 * middle) and V is 20 * sum of squares - S^2 (400 * variance), so    *)
(* widthPct = 400 * sqrt(V) / S and upper, lower = (S +- 2 * sqrt(V)) / 20. *)

\* null in a numeric field of a snapshot
NullNum == -1

Max(a, b) == IF a > b THEN a ELSE b

RECURSIVE SumFromTo(_, _, _)
\* data.slice(from - 1, to).reduce((a, b) => a + b, 0)
SumFromTo(data, from, to) ==
    IF from > to THEN 0 ELSE data[to] + SumFromTo(data, from, to - 1)

\* sma and stdDev of the closes over BB_PERIOD bars, as the pair <<S, V>>;
\* <<NullNum, NullNum>> (null) while i < period - 1.  The variance does not
\* depend on the price level: V is computed on the closes less closes[i],
\* which keeps the products within the integers of the checker
BandStats(closes) ==
    SubSeq([i \in 1..Len(closes) |->
              IF i < BB_PERIOD
              THEN <<NullNum, NullNum>>
              ELSE <<SumFromTo(closes, i - BB_PERIOD + 1, i),
                     BB_PERIOD * SumFromTo([j \in 1..Len(closes) |->
                                               (closes[j] - closes[i]) * (closes[j] - closes[i])],
                                           i - BB_PERIOD + 1, i)
                       - SumFromTo([j \in 1..Len(closes) |-> closes[j] - closes[i]],
                                   i - BB_PERIOD + 1, i)
                           * SumFromTo([j \in 1..Len(closes) |-> closes[j] - closes[i]],
                                       i - BB_PERIOD + 1, i)>>],
           1, Len(closes))

\* bb.widthPct[i] === null
WidthIsNull(stats, i) == stats[i][1] = NullNum

\* bb.widthPct[j] < bb.widthPct[i]
WidthLess(stats, j, i) ==
    stats[j][2] * stats[i][1] * stats[i][1] < stats[i][2] * stats[j][1] * stats[j][1]

\* close > bb.upper[i]
AboveUpper(close, stats, i) ==
    LET d == BB_PERIOD * close - stats[i][1]
    IN d > 0 /\ d * d > 4 * stats[i][2]

\* close < bb.lower[i]
BelowLower(close, stats, i) ==
    LET d == stats[i][1] - BB_PERIOD * close
    IN d > 0 /\ d * d > 4 * stats[i][2]

\* percentileRank without the test i < lookback - 1: a rank as soon as the
\* window holds two values
percentileRank_noLookback(stats, i) ==
    IF WidthIsNull(stats, i)
    THEN <<NullNum, NullNum>>
    ELSE LET window == {j \in Max(1, i - LOOKBACK_PERIOD + 1)..i : ~WidthIsNull(stats, j)}
         IN IF Cardinality(window) < 2
            THEN <<NullNum, NullNum>>
            ELSE <<Cardinality({j \in window : WidthLess(stats, j, i)}),
                   Cardinality(window) - 1>>

\* a percentileRank that counts the values more than 1 below the current one
percentileRank_byMargin(stats, i) ==
    IF WidthIsNull(stats, i) \/ i < LOOKBACK_PERIOD
    THEN <<NullNum, NullNum>>
    ELSE LET window == {j \in Max(1, i - LOOKBACK_PERIOD + 1)..i : ~WidthIsNull(stats, j)}
         IN IF Cardinality(window) < 2
            THEN <<NullNum, NullNum>>
            ELSE <<Cardinality({j \in window : stats[j][2] + 1 < stats[i][2]}),
                   Cardinality(window) - 1>>

\* percentileRank of bb.widthPct at bar i (1-based), as the pair
\* <<countLess, window.length - 1>>; <<NullNum, NullNum>> for null
percentileRank(stats, i) ==
    IF WidthIsNull(stats, i) \/ i < LOOKBACK_PERIOD
    THEN <<NullNum, NullNum>>
    ELSE LET window == {j \in Max(1, i - LOOKBACK_PERIOD + 1)..i : ~WidthIsNull(stats, j)}
         IN IF Cardinality(window) < 2
            THEN <<NullNum, NullNum>>
            ELSE <<Cardinality({j \in window : WidthLess(stats, j, i)}),
                   Cardinality(window) - 1>>

\* percentileRank of the indicators module that is built on the
\* trading-signals library: the same function but for the denominator, which
\* is window.length
percentileRank_tradingSignals(stats, i) ==
    IF WidthIsNull(stats, i) \/ i < LOOKBACK_PERIOD
    THEN <<NullNum, NullNum>>
    ELSE LET window == {j \in Max(1, i - LOOKBACK_PERIOD + 1)..i : ~WidthIsNull(stats, j)}
         IN IF Cardinality(window) < 2
            THEN <<NullNum, NullNum>>
            ELSE <<Cardinality({j \in window : WidthLess(stats, j, i)}),
                   Cardinality(window)>>

\* detectSqueezeState whose expansion test includes the threshold
detectSqueezeState_expansionFrom70(pct) ==
    IF pct[1] = NullNum THEN "N/A"
    ELSE IF 100 * pct[1] < TIGHT_SQUEEZE_PERCENTILE_THRESHOLD * pct[2] THEN "TIGHT_SQUEEZE"
    ELSE IF 100 * pct[1] < SQUEEZE_PERCENTILE_THRESHOLD * pct[2] THEN "SQUEEZE"
    ELSE IF 100 * pct[1] >= BREAKOUT_PERCENTILE_THRESHOLD * pct[2] THEN "EXPANSION"
    ELSE "NORMAL"

\* detectSqueezeState on the percentile countLess / denominator * 100
detectSqueezeState(pct) ==
    IF pct[1] = NullNum THEN "N/A"
    ELSE IF 100 * pct[1] < TIGHT_SQUEEZE_PERCENTILE_THRESHOLD * pct[2] THEN "TIGHT_SQUEEZE"
    ELSE IF 100 * pct[1] < SQUEEZE_PERCENTILE_THRESHOLD * pct[2] THEN "SQUEEZE"
    ELSE IF 100 * pct[1] > BREAKOUT_PERCENTILE_THRESHOLD * pct[2] THEN "EXPANSION"
    ELSE "NORMAL"

IsSqueeze(state) == state \in {"SQUEEZE", "TIGHT_SQUEEZE"}

\* a detectSqueezeState that calls a squeeze only when the ATR percentile is
\* low as well
detectSqueezeStateOfBoth_atrConfirmed(bbWidthPercentile, atrPercentile) ==
    IF IsSqueeze(detectSqueezeState(bbWidthPercentile))
         /\ (atrPercentile[1] = NullNum
               \/ 100 * atrPercentile[1] >= SQUEEZE_PERCENTILE_THRESHOLD * atrPercentile[2])
    THEN "NORMAL"
    ELSE detectSqueezeState(bbWidthPercentile)

\* frontend/js/indicators.js: detectSqueezeState(bbWidthPercentile,
\* atrPercentile) has the tests of the TypeScript function and does not read
\* its second parameter
detectSqueezeStateOfBoth(bbWidthPercentile, atrPercentile) ==
    detectSqueezeState(bbWidthPercentile)

\* squeezeStates = bbWidthPercentileArr.map(detectSqueezeState)
SqueezeStates(stats) ==
    SubSeq([i \in 1..Len(stats) |-> detectSqueezeState(percentileRank(stats, i))],
           1, Len(stats))

\* the loop of countSqueezeBars runs from the last bar back to the first bar
\* that is not in a squeeze: the count is the distance to the last such bar
countSqueezeBars(squeezeStates) ==
    LET breaks == {i \in 1..Len(squeezeStates) : ~IsSqueeze(squeezeStates[i])}
    IN IF breaks = {}
       THEN Len(squeezeStates)
       ELSE Len(squeezeStates) - (CHOOSE i \in breaks : \A j \in breaks : j <= i)

\* wasInSqueezeRecently that looks at one bar fewer: slice(-lookback, -1)
wasInSqueezeRecently_shortLookback(squeezeStates) ==
    \E i \in Max(1, Len(squeezeStates) - SQUEEZE_LOOKBACK_BARS + 1)..(Len(squeezeStates) - 1) :
        IsSqueeze(squeezeStates[i])

\* squeezeStates.slice(-lookback - 1, -1).some(squeeze)
wasInSqueezeRecently(squeezeStates) ==
    \E i \in Max(1, Len(squeezeStates) - SQUEEZE_LOOKBACK_BARS)..(Len(squeezeStates) - 1) :
        IsSqueeze(squeezeStates[i])

\* the signal of detectBreakout
detectBreakout(closes, stats, squeezeStates) ==
    IF Len(closes) < 2
    THEN NULL
    ELSE LET lastIdx == Len(closes)
             prevIdx == lastIdx - 1
             inSqueezeRecently == wasInSqueezeRecently(squeezeStates)
             bandsDefined == ~WidthIsNull(stats, lastIdx) /\ ~WidthIsNull(stats, prevIdx)
         IN IF /\ bandsDefined
               /\ AboveUpper(closes[lastIdx], stats, lastIdx)
               /\ ~AboveUpper(closes[prevIdx], stats, prevIdx)
               /\ inSqueezeRecently
            THEN "BULLISH_BREAKOUT"
            ELSE IF /\ bandsDefined
                    /\ BelowLower(closes[lastIdx], stats, lastIdx)
                    /\ ~BelowLower(closes[prevIdx], stats, prevIdx)
                    /\ inSqueezeRecently
            THEN "BEARISH_BREAKOUT"
            ELSE NULL

Volumes(candles) == [i \in 1..Len(candles) |-> candles[i].volume]

\* volumeRatio(candles)[i] (1-based): volume / sma(volumes, 20), as the pair
\* <<20 * volume, sum of the 20 volumes>>; <<NullNum, NullNum>> (null) when the
\* average is null or 0
volumeRatio(candles, i) ==
    IF i < 20
    THEN <<NullNum, NullNum>>
    ELSE LET sum == SumFromTo(Volumes(candles), i - 19, i)
         IN IF sum = 0 THEN <<NullNum, NullNum>> ELSE <<20 * candles[i].volume, sum>>

\* volRatio !== null && volRatio >= VOLUME_SURGE_MULTIPLIER (1.5)
IsVolumeSurge(volRatio) == volRatio[1] # NullNum /\ 2 * volRatio[1] >= 3 * volRatio[2]

\* detectBreakout whose signal needs a volume surge
BreakoutResult_volumeGated(candles, stats, squeezeStates) ==
    IF Len(candles) < 2
    THEN [signal |-> NULL, squeezeBars |-> 0, volumeSurge |-> FALSE,
          inSqueezeRecently |-> FALSE]
    ELSE [signal |-> IF IsVolumeSurge(volumeRatio(candles, Len(candles)))
                     THEN detectBreakout(Closes(candles), stats, squeezeStates)
                     ELSE NULL,
          squeezeBars |-> countSqueezeBars(SubSeq(squeezeStates, 1, Len(squeezeStates) - 1)),
          volumeSurge |-> IsVolumeSurge(volumeRatio(candles, Len(candles))),
          inSqueezeRecently |-> wasInSqueezeRecently(squeezeStates)]

\* the record detectBreakout returns
BreakoutResult(candles, stats, squeezeStates) ==
    IF Len(candles) < 2
    THEN [signal |-> NULL, squeezeBars |-> 0, volumeSurge |-> FALSE,
          inSqueezeRecently |-> FALSE]
    ELSE [signal |-> detectBreakout(Closes(candles), stats, squeezeStates),
          squeezeBars |-> countSqueezeBars(SubSeq(squeezeStates, 1, Len(squeezeStates) - 1)),
          volumeSurge |-> IsVolumeSurge(volumeRatio(candles, Len(candles))),
          inSqueezeRecently |-> wasInSqueezeRecently(squeezeStates)]

\* round(value, 1) of the percentile, in tenths; NullNum for null
RoundPercentile(pct) ==
    IF pct[1] = NullNum THEN NullNum
    ELSE (2000 * pct[1] + pct[2]) \div (2 * pct[2])

\* the snapshot of the minimum-history guard, with every field of the source
InsufficientData ==
    [status |-> "INSUFFICIENT_DATA", price |-> NullNum, bbWidthPct |-> NullNum,
     bbWidthPercentile |-> NullNum, atrPct |-> NullNum, atrPercentile |-> NullNum,
     squeezeState |-> "N/A", squeezeBars |-> 0, signal |-> NULL, volumeSurge |-> FALSE,
     bbUpper |-> NullNum, bbLower |-> NullNum, bbMiddle |-> NullNum, bbPercentB |-> NullNum,
     volumeRatio |-> NullNum, timestamp |-> NullNum]

\* the snapshot of a window with enough history: the fields the alert engine
\* and the screener's regime and signal columns read

Snapshot(candles, stats, squeezeStates) ==
    [status |-> "OK",
     price |-> candles[Len(candles)].close,
     bbWidthPercentile |-> RoundPercentile(percentileRank(stats, Len(candles))),
     squeezeState |-> squeezeStates[Len(candles)],
     squeezeBars |-> countSqueezeBars(squeezeStates),
     signal |-> BreakoutResult(candles, stats, squeezeStates).signal,
     volumeSurge |-> BreakoutResult(candles, stats, squeezeStates).volumeSurge,
     timestamp |-> candles[Len(candles)].time]

\* analyzeVolatility whose guard asks for ATR_PERIOD candles only
analyzeVolatility_atrPeriodOnly(candles) ==
    IF Len(candles) < ATR_PERIOD
    THEN InsufficientData
    ELSE CHOOSE analysis \in
            { Snapshot(candles, st[1], st[2]) :
                st \in { <<stats, SqueezeStates(stats)>> :
                           stats \in {BandStats(Closes(candles))} } } : TRUE

\* candles is always an array here: analyzeFromStore returns before the call
\* when the store has no window, and fetchCandles always returns an array
analyzeVolatility(candles) ==
    IF Len(candles) < Max(Max(BB_PERIOD, ATR_PERIOD), 20)
    THEN InsufficientData
    ELSE CHOOSE analysis \in
            { Snapshot(candles, st[1], st[2]) :
                st \in { <<stats, SqueezeStates(stats)>> :
                           stats \in {BandStats(Closes(candles))} } } : TRUE

\* analyzeVolatility on an argument that may be null: !candles is the first
\* test of the guard
analyzeVolatilityOrNull(arg) ==
    IF arg.isNull THEN InsufficientData ELSE analyzeVolatility(arg.candles)

----------------------------------------------------------------------------
(* The other numeric fields of an OK snapshot, each by the kind of value it *)
(* holds: "null", "number", "NaN" or "Infinity".  Which kind a quotient has  *)
(* is decided by its operands: x / 0 is NaN for x = 0 and an infinity        *)
(* otherwise; the closes and volumes of a window are never negative.         *)

\* round without the isNaN test
round_keepNaN(kind) == kind

\* round(value, decimals): null for null and for NaN, the rounded value otherwise
round(kind) == IF kind \in {"null", "NaN"} THEN "null" ELSE kind

\* bb.middle[i], bb.upper[i], bb.lower[i]
BandKind(stats, i) == IF WidthIsNull(stats, i) THEN "null" ELSE "number"

\* bb.widthPct[i] = (w / m) * 100
WidthPctKind(stats, i) ==
    IF WidthIsNull(stats, i) THEN "null"
    ELSE IF stats[i][1] # 0 THEN "number"
    ELSE IF stats[i][2] = 0 THEN "NaN" ELSE "Infinity"

\* bb.percentB[i] = (closes[i] - l) / (u - l): with a standard deviation of 0
\* every close of the period is the mean, and so is the lower band
PercentBKind(stats, i) ==
    IF WidthIsNull(stats, i) THEN "null"
    ELSE IF stats[i][2] # 0 THEN "number" ELSE "NaN"

\* ema pushes a number at every index: atrValues[i] is never null
AtrKind(candles, i) == "number"

\* atrPct[i]: null when atr === null || closes[i] === 0
AtrPctKind(candles, i) ==
    IF AtrKind(candles, i) = "null" \/ candles[i].close = 0 THEN "null" ELSE "number"

\* percentileRank(atrData.atrPct)[i]
AtrPercentileKind(candles, i) ==
    IF AtrPctKind(candles, i) = "null" \/ i < LOOKBACK_PERIOD
    THEN "null"
    ELSE IF Cardinality({j \in Max(1, i - LOOKBACK_PERIOD + 1)..i :
                            AtrPctKind(candles, j) # "null"}) < 2
    THEN "null"
    ELSE "number"

\* volRatios[i]
VolumeRatioKind(candles, i) ==
    IF volumeRatio(candles, i)[1] = NullNum THEN "null" ELSE "number"

\* the fields of the OK snapshot that analyzeVolatility rounds
IndicatorFields(candles) ==
    LET stats == BandStats(Closes(candles))
        lastIdx == Len(candles)
    IN [bbWidthPct |-> round(WidthPctKind(stats, lastIdx)),
        atrPct |-> round(AtrPctKind(candles, lastIdx)),
        atrPercentile |-> round(AtrPercentileKind(candles, lastIdx)),
        bbUpper |-> round(BandKind(stats, lastIdx)),
        bbLower |-> round(BandKind(stats, lastIdx)),
        bbMiddle |-> round(BandKind(stats, lastIdx)),
        bbPercentB |-> round(PercentBKind(stats, lastIdx)),
        volumeRatio |-> round(VolumeRatioKind(candles, lastIdx))]

\* the series analyzeVolatility computes before it reads their last element:
\* calculateBollingerBands, calculateATR and volumeRatio, index by index
IndicatorSeries(candles) ==
    LET stats == BandStats(Closes(candles))
        n == Len(candles)
    IN [bbMiddle |-> [i \in 1..n |-> BandKind(stats, i)],
        bbUpper |-> [i \in 1..n |-> BandKind(stats, i)],
        bbLower |-> [i \in 1..n |-> BandKind(stats, i)],
        bbWidthPct |-> [i \in 1..n |-> WidthPctKind(stats, i)],
        atr |-> [i \in 1..n |-> AtrKind(candles, i)],
        atrPct |-> [i \in 1..n |-> AtrPctKind(candles, i)],
        volumeRatio |-> [i \in 1..n |-> VolumeRatioKind(candles, i)]]

\* the whole snapshot of a window with enough history
VolatilityAnalysis(candles) ==
    LET analysis == analyzeVolatility(candles)
        fields == IndicatorFields(candles)
    IN [f \in DOMAIN analysis \cup DOMAIN fields |->
           IF f \in DOMAIN fields THEN fields[f] ELSE analysis[f]]

----------------------------------------------------------------------------
(* Streaming ticks: what DeltaWebSocket.handleMessage hands to the callback *)

TickTimes == (EndBar - 1)..(EndBar + MaxAhead)

TickCloses == {2}

Ticks == {Candle(t, p, 1) : t \in TickTimes, p \in TickCloses}

----------------------------------------------------------------------------
(* The parts of the state a specification does not exercise stay as they    *)
(* are before the page is mounted and before the legacy App is initialised  *)

NoAnalysis == [status |-> "null", price |-> NullNum, bbWidthPercentile |-> NullNum,
               squeezeState |-> "N/A", squeezeBars |-> 0, signal |-> NULL,
               volumeSurge |-> FALSE, timestamp |-> NullNum]

NoCheck == [checked |-> FALSE, baseline |-> FALSE, newAlerts |-> <<>>]

Event(handler, symbol, timeframe, candle, isNewCandle, analysis, check) ==
    [handler |-> handler, symbol |-> symbol, timeframe |-> timeframe, candle |-> candle,
     isNewCandle |-> isNewCandle, analysis |-> analysis,
     checked |-> check.checked, baseline |-> check.baseline, newAlerts |-> check.newAlerts]

PageIdle ==
    /\ watchlist = <<>>
    /\ enabledTimeframes = <<>>
    /\ screenerData = EmptyMap
    /\ alerts = <<>>
    /\ previousData = EmptyMap
    /\ isInitialLoad = TRUE
    /\ fetches = <<>>
    /\ lastEvent = Event("none", "", "", NoCandle, FALSE, NoAnalysis, NoCheck)

Refresh(step, symbols, data, newAlerts) ==
    [step |-> step, symbols |-> symbols, data |-> data, newAlerts |-> newAlerts]

LegacyIdle ==
    /\ app = [watchlist |-> <<>>, screenerData |-> EmptyMap, previousStates |-> EmptyMap,
              isLoading |-> FALSE, pending |-> <<>>]
    /\ storedAlerts = <<>>
    /\ lastRefresh = Refresh("none", <<>>, EmptyMap, <<>>)

HistoryInit ==
    /\ computedKeys = {}
    /\ count = [ticks |-> 0, refreshes |-> 0]
    /\ newCandleReports = EmptyMap

\* the DeltaWebSocket singleton as constructed; sockets holds the readyState
\* of every WebSocket the object has created, ws the position of this.ws in
\* it (0 for null), timers the reconnect timeouts that have not fired yet
NewDeltaWebSocket ==
    [sockets |-> <<>>, ws |-> 0, onCandleCallback |-> FALSE, onStatusCallback |-> FALSE,
     subscribedChannels |-> FALSE, reconnectAttempts |-> 0,
     isIntentionallyClosed |-> FALSE, timers |-> 0]

SocketIdle ==
    /\ deltaWebSocket = NewDeltaWebSocket
    /\ wsConnected = FALSE
    /\ wsInitialized = FALSE

----------------------------------------------------------------------------
(* Specification of the candle store: the exported functions of             *)
(* delta-client.ts called in any order                                     *)

Call(op, symbol, timeframe, candle, batch, ret) ==
    [op |-> op, symbol |-> symbol, timeframe |-> timeframe,
     candle |-> candle, batch |-> batch, ret |-> ret]

StoreInit ==
    /\ candleStore = EmptyMap
    /\ lastCall = Call("init", "", "", NoCandle, NoBatch, FALSE)

Init == StoreInit /\ PageIdle /\ LegacyIdle /\ HistoryInit /\ SocketIdle

StoreCandles(symbol, timeframe, b) ==
    /\ candleStore' = storeCandles(candleStore, symbol, timeframe, Fetched(b))
    /\ lastCall' = Call("storeCandles", symbol, timeframe, NoCandle, b, FALSE)
    /\ UNCHANGED <<pageVars, legacyVars, historyVars, socketVars, newCandleReports>>

\* fetchAndStoreCandles without the candles.length > 0 test
FetchAndStoreCandles_storeAlways(symbol, timeframe, b) ==
    /\ candleStore' = storeCandles(candleStore, symbol, timeframe, Fetched(b))
    /\ lastCall' = Call("fetchAndStoreCandles", symbol, timeframe, NoCandle, b, FALSE)
    /\ UNCHANGED <<pageVars, legacyVars, historyVars, socketVars, newCandleReports>>

FetchAndStoreCandles(symbol, timeframe, b) ==
    /\ candleStore' = IF Len(Fetched(b)) > 0
                      THEN storeCandles(candleStore, symbol, timeframe, Fetched(b))
                      ELSE candleStore
    /\ lastCall' = Call("fetchAndStoreCandles", symbol, timeframe, NoCandle, b, FALSE)
    /\ UNCHANGED <<pageVars, legacyVars, historyVars, socketVars, newCandleReports>>

UpdateCandle(symbol, timeframe, c) ==
    LET r == updateCandle(candleStore, symbol, timeframe, c)
    IN /\ candleStore' = r.store
       /\ lastCall' = Call("updateCandle", symbol, timeframe, c, NoBatch, r.ret)
       /\ UNCHANGED <<pageVars, legacyVars, historyVars, socketVars, newCandleReports>>
    /\ UNCHANGED <<pageVars, legacyVars, historyVars, socketVars, newCandleReports>>

ClearSymbolFromStore(symbol) ==
    /\ candleStore' = clearSymbolFromStore(candleStore, symbol)
    /\ lastCall' = Call("clearSymbolFromStore", symbol, "", NoCandle, NoBatch, FALSE)
    /\ UNCHANGED <<pageVars, legacyVars, historyVars, socketVars, newCandleReports>>

ClearCandleStore ==
    /\ candleStore' = EmptyMap
    /\ lastCall' = Call("clearCandleStore", "", "", NoCandle, NoBatch, FALSE)
    /\ UNCHANGED <<pageVars, legacyVars, historyVars, socketVars, newCandleReports>>

Next ==
    \/ \E s \in Symbols, tf \in Timeframes, b \in Batches : StoreCandles(s, tf, b)
    \/ \E s \in Symbols, tf \in Timeframes, b \in Batches : FetchAndStoreCandles(s, tf, b)
    \/ \E s \in Symbols, tf \in Timeframes, c \in Ticks : UpdateCandle(s, tf, c)
    \/ \E s \in Symbols : ClearSymbolFromStore(s)
    \/ ClearCandleStore

Spec == Init /\ [][Next]_vars

----------------------------------------------------------------------------
(* The alert engine of src/app/page.tsx: checkForAlerts *)

MAX_ALERTS == 50

\* TIMEFRAMES of types.ts, cut down to one: the toggle in the settings can
\* only try to disable the last enabled timeframe, which the handler refuses
TIMEFRAMES == <<"1m">>

PageTimeframes == {TIMEFRAMES[i] : i \in 1..Len(TIMEFRAMES)}

\* Array.prototype.includes
Includes(array, x) == \E i \in 1..Len(array) : array[i] = x

\* Array.prototype.filter(y => y !== x)
Without(array, x) == LET keep(y) == y # x IN SelectSeq(array, keep)

Min(a, b) == IF a < b THEN a ELSE b

\* data[symbol]?.[tf] is defined
HasSnapshot(data, symbol, tf) == symbol \in DOMAIN data /\ tf \in DOMAIN data[symbol]

\* data[symbol] = {...data[symbol], [tf]: analysis}
SetSnapshot(data, symbol, tf, analysis) ==
    MapSet(data, symbol,
           MapSet(IF symbol \in DOMAIN data THEN data[symbol] ELSE EmptyMap, tf, analysis))

\* an alert without its id and timestamp (both Date.now())
Alert(type, symbol, tf, current) ==
    [type |-> type, symbol |-> symbol, timeframe |-> tf,
     price |-> IF current.price = NullNum THEN 0 ELSE current.price,
     signal |-> IF type = "breakout" THEN current.signal ELSE NULL,
     squeezeState |-> IF type = "squeeze_entry" THEN current.squeezeState ELSE NULL,
     squeezeBars |-> IF type = "squeeze_entry" THEN NullNum ELSE current.squeezeBars]

\* the loop body with a squeeze_entry test that does not look at the previous regime
CompareSnapshots_entryFromAny(symbol, tf, current, previous) ==
    IF current.signal # NULL /\ previous.signal # current.signal
    THEN <<Alert("breakout", symbol, tf, current)>>
    ELSE IF IsSqueeze(current.squeezeState)
    THEN <<Alert("squeeze_entry", symbol, tf, current)>>
    ELSE IF current.squeezeState = "TIGHT_SQUEEZE" /\ previous.squeezeState = "SQUEEZE"
    THEN <<Alert("tight_squeeze", symbol, tf, current)>>
    ELSE <<>>

\* the loop body with a tight_squeeze test that does not look at the previous regime
CompareSnapshots_tightFromAny(symbol, tf, current, previous) ==
    IF current.signal # NULL /\ previous.signal # current.signal
    THEN <<Alert("breakout", symbol, tf, current)>>
    ELSE IF /\ IsSqueeze(current.squeezeState)
            /\ previous.squeezeState \in {"NORMAL", "EXPANSION"}
    THEN <<Alert("squeeze_entry", symbol, tf, current)>>
    ELSE IF current.squeezeState = "TIGHT_SQUEEZE"
    THEN <<Alert("tight_squeeze", symbol, tf, current)>>
    ELSE <<>>

\* the loop body with a breakout test that does not look at the previous signal
CompareSnapshots_anySignal(symbol, tf, current, previous) ==
    IF current.signal # NULL
    THEN <<Alert("breakout", symbol, tf, current)>>
    ELSE IF /\ IsSqueeze(current.squeezeState)
            /\ previous.squeezeState \in {"NORMAL", "EXPANSION"}
    THEN <<Alert("squeeze_entry", symbol, tf, current)>>
    ELSE IF current.squeezeState = "TIGHT_SQUEEZE" /\ previous.squeezeState = "SQUEEZE"
    THEN <<Alert("tight_squeeze", symbol, tf, current)>>
    ELSE <<>>

\* the loop body with three independent if statements in place of the chain
CompareSnapshots_independentChecks(symbol, tf, current, previous) ==
    (IF current.signal # NULL /\ previous.signal # current.signal
     THEN <<Alert("breakout", symbol, tf, current)>> ELSE <<>>)
    \o (IF /\ IsSqueeze(current.squeezeState)
           /\ previous.squeezeState \in {"NORMAL", "EXPANSION"}
        THEN <<Alert("squeeze_entry", symbol, tf, current)>> ELSE <<>>)
    \o (IF current.squeezeState = "TIGHT_SQUEEZE" /\ previous.squeezeState = "SQUEEZE"
        THEN <<Alert("tight_squeeze", symbol, tf, current)>> ELSE <<>>)

\* the if / else-if chain of the loop body: the alerts one key adds
CompareSnapshots(symbol, tf, current, previous) ==
    IF current.signal # NULL /\ previous.signal # current.signal
    THEN <<Alert("breakout", symbol, tf, current)>>
    ELSE IF /\ IsSqueeze(current.squeezeState)
            /\ previous.squeezeState \in {"NORMAL", "EXPANSION"}
    THEN <<Alert("squeeze_entry", symbol, tf, current)>>
    ELSE IF current.squeezeState = "TIGHT_SQUEEZE" /\ previous.squeezeState = "SQUEEZE"
    THEN <<Alert("tight_squeeze", symbol, tf, current)>>
    ELSE <<>>

\* neither continue statement of the loop body is taken for the key
Compared(newData, previous, symbol, tf) ==
    /\ HasSnapshot(newData, symbol, tf) /\ newData[symbol][tf].status = "OK"
    /\ HasSnapshot(previous, symbol, tf) /\ previous[symbol][tf].status = "OK"

\* the keys in the order the two nested loops visit them
LoopKeys(symbols, timeframes) ==
    [k \in 1..(Len(symbols) * Len(timeframes)) |->
        <<symbols[((k - 1) \div Len(timeframes)) + 1],
          timeframes[((k - 1) % Len(timeframes)) + 1]>>]

RECURSIVE CheckKeys(_, _, _)
\* the loop: acc holds previousDataRef.current and newAlerts so far
CheckKeys(keys, newData, acc) ==
    IF Len(keys) = 0
    THEN acc
    ELSE LET symbol == keys[1][1]
             tf == keys[1][2]
         IN CheckKeys(Tail(keys), newData,
                IF Compared(newData, acc.previousData, symbol, tf)
                THEN [previousData |->
                          SetSnapshot(acc.previousData, symbol, tf, newData[symbol][tf]),
                      newAlerts |->
                          acc.newAlerts \o CompareSnapshots(symbol, tf, newData[symbol][tf],
                                                            acc.previousData[symbol][tf])]
                ELSE acc)

\* checkForAlerts that cuts the log with slice(-50) in place of slice(0, 50)
checkForAlerts_keepOldest(refs, newData, symbols, timeframes, isFullUpdate) ==
    IF refs.isInitialLoad
    THEN [previousData |-> newData, isInitialLoad |-> FALSE, alerts |-> refs.alerts,
          newAlerts |-> <<>>, baseline |-> TRUE]
    ELSE LET loop == CheckKeys(LoopKeys(symbols, timeframes), newData,
                               [previousData |-> refs.previousData, newAlerts |-> <<>>])
         IN [previousData |-> IF isFullUpdate THEN newData ELSE loop.previousData,
             isInitialLoad |-> FALSE,
             alerts |-> IF Len(loop.newAlerts) > 0
                        THEN SliceLast(loop.newAlerts \o refs.alerts, MAX_ALERTS)
                        ELSE refs.alerts,
             newAlerts |-> loop.newAlerts,
             baseline |-> FALSE]

\* checkForAlerts on the refs and the alert state; symbols is Object.keys(newData)
checkForAlerts(refs, newData, symbols, timeframes, isFullUpdate) ==
    IF refs.isInitialLoad
    THEN [previousData |-> newData, isInitialLoad |-> FALSE, alerts |-> refs.alerts,
          newAlerts |-> <<>>, baseline |-> TRUE]
    ELSE LET loop == CheckKeys(LoopKeys(symbols, timeframes), newData,
                               [previousData |-> refs.previousData, newAlerts |-> <<>>])
         IN [previousData |-> IF isFullUpdate THEN newData ELSE loop.previousData,
             isInitialLoad |-> FALSE,
             alerts |-> IF Len(loop.newAlerts) > 0
                        THEN SubSeq(loop.newAlerts \o refs.alerts, 1,
                                    Min(MAX_ALERTS, Len(loop.newAlerts) + Len(refs.alerts)))
                        ELSE refs.alerts,
             newAlerts |-> loop.newAlerts,
             baseline |-> FALSE]

----------------------------------------------------------------------------
(* The page of src/app/page.tsx: handlers, data fetch and streaming updates. *)
(* A state update and the effects it triggers are taken with the handler    *)
(* that made it: a change of watchlist or enabledTimeframes re-creates      *)
(* fetchData, and the effect on it calls fetchData at once.                 *)

\* how many fetchData invocations the refresh button and the settings may start
MaxRefreshes == 1

\* how many streaming ticks are delivered
MaxTicks == 1

batchSize == 5

\* the streaming ticks the page is fed with: a stale tick, a tick for the
\* last bar of the history, and two for the next bar
ScreenerTicks ==
    { Candle(EndBar - 1, 5, 1), Candle(EndBar, 8, 1),
      Candle(EndBar + 1, 5, 1), Candle(EndBar + 1, 8, 1) }

\* the window a streaming tick turns a window into
Ticked(candles, c) == updateCandle(storeCandles(EmptyMap, "", "", candles), "", "", c).store[""][""]

RECURSIVE TickedWindows(_, _)
\* the windows that at most n streaming ticks make of a set of windows
TickedWindows(windows, n) ==
    IF n = 0
    THEN windows
    ELSE TickedWindows(windows \cup {Ticked(w, c) : w \in {x \in windows : Len(x) > 0},
                                                   c \in ScreenerTicks},
                       n - 1)

\* analyzeVolatility of the windows the screener can hold, computed once
AnalysisTable ==
    [w \in TickedWindows({Fetched(b) : b \in ScreenerBatches}, MaxTicks) |->
        analyzeVolatility(w)]

Analysis(candles) ==
    IF candles \in DOMAIN AnalysisTable THEN AnalysisTable[candles] ELSE analyzeVolatility(candles)

analyzeFromStore(store, symbol, timeframe) ==
    IF HasWindow(store, symbol, timeframe)
    THEN Analysis(store[symbol][timeframe])
    ELSE NoAnalysis

\* a backfill that starts the fetches of every remaining symbol at once
BatchKeys_allAtOnce(symbols, timeframes, start) ==
    { <<symbols[i], timeframes[j]>> :
        i \in start..Len(symbols), j \in 1..Len(timeframes) }

\* the keys initializeCandleStore fetches in parallel: one batch of symbols
BatchKeys(symbols, timeframes, start) ==
    { <<symbols[i], timeframes[j]>> :
        i \in start..Min(start + batchSize - 1, Len(symbols)), j \in 1..Len(timeframes) }

\* fetchData: the invocation it adds to those in flight (none on the early return)
fetchData(symbols, timeframes) ==
    IF Len(symbols) = 0 \/ Len(timeframes) = 0
    THEN <<>>
    ELSE << [symbols |-> symbols, timeframes |-> timeframes, batchStart |-> 1,
             pending |-> BatchKeys(symbols, timeframes, 1), results |-> EmptyMap] >>

\* results of initializeCandleStore, keyed by symbol and timeframe
ResultsOf(fetch, results) ==
    [s \in {fetch.symbols[i] : i \in 1..Len(fetch.symbols)} |->
        [tf \in {fetch.timeframes[j] : j \in 1..Len(fetch.timeframes)} |-> results[<<s, tf>>]]]

RemoveAt(array, j) == SubSeq(array, 1, j - 1) \o SubSeq(array, j + 1, Len(array))

Checked(r) == [checked |-> TRUE, baseline |-> r.baseline, newAlerts |-> r.newAlerts]

Refs == [previousData |-> previousData, isInitialLoad |-> isInitialLoad, alerts |-> alerts]

\* one fetchAndStoreCandles of an invocation in flight answers; the last
\* answer of the last batch resumes fetchData: checkForAlerts, setScreenerData
FetchKeyDone(j, symbol, tf, b) ==
    /\ j \in 1..Len(fetches)
    /\ <<symbol, tf>> \in fetches[j].pending
    /\ LET fetch == fetches[j]
           candles == Fetched(b)
           results == MapSet(fetch.results, <<symbol, tf>>, Analysis(candles))
           pending == fetch.pending \ {<<symbol, tf>>}
           nextStart == fetch.batchStart + batchSize
           data == ResultsOf(fetch, results)
           r == checkForAlerts(Refs, data, fetch.symbols, fetch.timeframes, TRUE)
       IN /\ candleStore' = IF Len(candles) > 0
                            THEN storeCandles(candleStore, symbol, tf, candles)
                            ELSE candleStore
          /\ computedKeys' = computedKeys \cup {<<symbol, tf>>}
          /\ IF pending # {}
             THEN /\ fetches' = [fetches EXCEPT ![j].results = results, ![j].pending = pending]
                  /\ lastEvent' = Event("fetchAndStoreCandles", symbol, tf, NoCandle, FALSE,
                                        results[<<symbol, tf>>], NoCheck)
                  /\ UNCHANGED <<screenerData, alerts, previousData, isInitialLoad>>
             ELSE IF nextStart <= Len(fetch.symbols)
             THEN /\ fetches' = [fetches EXCEPT
                                   ![j].results = results,
                                   ![j].batchStart = nextStart,
                                   ![j].pending = BatchKeys(fetch.symbols, fetch.timeframes,
                                                            nextStart)]
                  /\ lastEvent' = Event("fetchAndStoreCandles", symbol, tf, NoCandle, FALSE,
                                        results[<<symbol, tf>>], NoCheck)
                  /\ UNCHANGED <<screenerData, alerts, previousData, isInitialLoad>>
             ELSE /\ fetches' = RemoveAt(fetches, j)
                  /\ previousData' = r.previousData
                  /\ isInitialLoad' = r.isInitialLoad
                  /\ alerts' = r.alerts
                  /\ screenerData' = data
                  /\ lastEvent' = Event("fetchData", symbol, tf, NoCandle, FALSE,
                                        results[<<symbol, tf>>], Checked(r))
    /\ UNCHANGED <<watchlist, enabledTimeframes, count, lastCall>>
    /\ UNCHANGED <<legacyVars, socketVars, newCandleReports>>

\* handleCandleUpdate that runs the alert check whether or not the tick opened a new candle
HandleCandleUpdate_checkEveryTick(symbol, timeframe, candle) ==
    /\ count.ticks < MaxTicks
    /\ count' = [count EXCEPT !.ticks = @ + 1]
    /\ IF ~Includes(watchlist, symbol) \/ ~Includes(enabledTimeframes, timeframe)
       THEN /\ lastEvent' = Event("handleCandleUpdate", symbol, timeframe, candle, FALSE,
                                  NoAnalysis, NoCheck)
            /\ UNCHANGED <<candleStore, screenerData, alerts, previousData, isInitialLoad,
                           computedKeys>>
       ELSE LET u == updateCandle(candleStore, symbol, timeframe, candle)
                analysis == analyzeFromStore(u.store, symbol, timeframe)
                r == checkForAlerts(Refs, SetSnapshot(EmptyMap, symbol, timeframe, analysis),
                                    <<symbol>>, <<timeframe>>, FALSE)
            IN /\ candleStore' = u.store
               /\ IF analysis = NoAnalysis
                  THEN /\ lastEvent' = Event("handleCandleUpdate", symbol, timeframe, candle,
                                             u.ret, analysis, NoCheck)
                       /\ UNCHANGED <<screenerData, alerts, previousData, isInitialLoad,
                                      computedKeys>>
                  ELSE /\ screenerData' = SetSnapshot(screenerData, symbol, timeframe, analysis)
                       /\ computedKeys' = computedKeys \cup {<<symbol, timeframe>>}
                       /\ IF u.ret \/ ~u.ret
                          THEN /\ previousData' = r.previousData
                               /\ isInitialLoad' = r.isInitialLoad
                               /\ alerts' = r.alerts
                               /\ lastEvent' = Event("handleCandleUpdate", symbol, timeframe,
                                                     candle, u.ret, analysis, Checked(r))
                          ELSE /\ lastEvent' = Event("handleCandleUpdate", symbol, timeframe,
                                                     candle, u.ret, analysis, NoCheck)
                               /\ UNCHANGED <<alerts, previousData, isInitialLoad>>
    /\ UNCHANGED <<watchlist, enabledTimeframes, fetches, lastCall>>
    /\ UNCHANGED <<legacyVars, socketVars, newCandleReports>>

\* handleCandleUpdate, called by the WebSocket client for a tick
HandleCandleUpdate(symbol, timeframe, candle) ==
    /\ count.ticks < MaxTicks
    /\ count' = [count EXCEPT !.ticks = @ + 1]
    /\ IF ~Includes(watchlist, symbol) \/ ~Includes(enabledTimeframes, timeframe)
       THEN /\ lastEvent' = Event("handleCandleUpdate", symbol, timeframe, candle, FALSE,
                                  NoAnalysis, NoCheck)
            /\ UNCHANGED <<candleStore, screenerData, alerts, previousData, isInitialLoad,
                           computedKeys>>
       ELSE LET u == updateCandle(candleStore, symbol, timeframe, candle)
                analysis == analyzeFromStore(u.store, symbol, timeframe)
                r == checkForAlerts(Refs, SetSnapshot(EmptyMap, symbol, timeframe, analysis),
                                    <<symbol>>, <<timeframe>>, FALSE)
            IN /\ candleStore' = u.store
               /\ IF analysis = NoAnalysis
                  THEN /\ lastEvent' = Event("handleCandleUpdate", symbol, timeframe, candle,
                                             u.ret, analysis, NoCheck)
                       /\ UNCHANGED <<screenerData, alerts, previousData, isInitialLoad,
                                      computedKeys>>
                  ELSE /\ screenerData' = SetSnapshot(screenerData, symbol, timeframe, analysis)
                       /\ computedKeys' = computedKeys \cup {<<symbol, timeframe>>}
                       /\ IF u.ret
                          THEN /\ previousData' = r.previousData
                               /\ isInitialLoad' = r.isInitialLoad
                               /\ alerts' = r.alerts
                               /\ lastEvent' = Event("handleCandleUpdate", symbol, timeframe,
                                                     candle, u.ret, analysis, Checked(r))
                          ELSE /\ lastEvent' = Event("handleCandleUpdate", symbol, timeframe,
                                                     candle, u.ret, analysis, NoCheck)
                               /\ UNCHANGED <<alerts, previousData, isInitialLoad>>
    /\ UNCHANGED <<watchlist, enabledTimeframes, fetches, lastCall>>
    /\ UNCHANGED <<legacyVars, socketVars, newCandleReports>>

\* the refresh button: fetchData(false)
FetchData ==
    /\ count.refreshes < MaxRefreshes
    /\ count' = [count EXCEPT !.refreshes = @ + 1]
    /\ fetches' = fetches \o fetchData(watchlist, enabledTimeframes)
    /\ lastEvent' = Event("refresh", "", "", NoCandle, FALSE, NoAnalysis, NoCheck)
    /\ UNCHANGED <<candleStore, lastCall, watchlist, enabledTimeframes, screenerData, alerts,
                   previousData, isInitialLoad, computedKeys>>
    /\ UNCHANGED <<legacyVars, socketVars, newCandleReports>>

HandleAddSymbol(symbol) ==
    /\ count.refreshes < MaxRefreshes
    /\ ~Includes(watchlist, symbol)
    /\ count' = [count EXCEPT !.refreshes = @ + 1]
    /\ watchlist' = Append(watchlist, symbol)
    /\ fetches' = fetches \o fetchData(watchlist', enabledTimeframes)
    /\ lastEvent' = Event("handleAddSymbol", symbol, "", NoCandle, FALSE, NoAnalysis, NoCheck)
    /\ UNCHANGED <<candleStore, lastCall, enabledTimeframes, screenerData, alerts,
                   previousData, isInitialLoad, computedKeys>>
    /\ UNCHANGED <<legacyVars, socketVars, newCandleReports>>

\* the remove button of a watchlist entry
HandleRemoveSymbol(symbol) ==
    /\ count.refreshes < MaxRefreshes
    /\ Includes(watchlist, symbol)
    /\ count' = [count EXCEPT !.refreshes = @ + 1]
    /\ watchlist' = Without(watchlist, symbol)
    /\ screenerData' = MapDelete(screenerData, symbol)
    /\ candleStore' = clearSymbolFromStore(candleStore, symbol)
    /\ fetches' = fetches \o fetchData(watchlist', enabledTimeframes)
    /\ lastEvent' = Event("handleRemoveSymbol", symbol, "", NoCandle, FALSE, NoAnalysis,
                          NoCheck)
    /\ UNCHANGED <<lastCall, enabledTimeframes, alerts, previousData, isInitialLoad,
                   computedKeys>>
    /\ UNCHANGED <<legacyVars, socketVars, newCandleReports>>

HandleClearAlerts ==
    /\ Len(alerts) > 0
    /\ alerts' = <<>>
    /\ lastEvent' = Event("handleClearAlerts", "", "", NoCandle, FALSE, NoAnalysis, NoCheck)
    /\ UNCHANGED <<candleStore, lastCall, watchlist, enabledTimeframes, screenerData,
                   previousData, isInitialLoad, fetches, computedKeys, count>>
    /\ UNCHANGED <<legacyVars, socketVars, newCandleReports>>

\* TIMEFRAMES.filter(tf => newTimeframes.includes(tf))
InTimeframesOrder(array) == LET keep(tf) == Includes(array, tf) IN SelectSeq(TIMEFRAMES, keep)

HandleToggleTimeframe(timeframe) ==
    /\ count.refreshes < MaxRefreshes
    /\ count' = [count EXCEPT !.refreshes = @ + 1]
    /\ enabledTimeframes' =
          IF Includes(enabledTimeframes, timeframe)
          THEN IF Len(enabledTimeframes) = 1
               THEN enabledTimeframes
               ELSE Without(enabledTimeframes, timeframe)
          ELSE InTimeframesOrder(Append(enabledTimeframes, timeframe))
    /\ fetches' = IF enabledTimeframes' = enabledTimeframes
                  THEN fetches
                  ELSE fetches \o fetchData(watchlist, enabledTimeframes')
    /\ lastEvent' = Event("handleToggleTimeframe", "", timeframe, NoCandle, FALSE, NoAnalysis,
                          NoCheck)
    /\ UNCHANGED <<candleStore, lastCall, watchlist, screenerData, alerts, previousData,
                   isInitialLoad, computedKeys>>
    /\ UNCHANGED <<legacyVars, socketVars, newCandleReports>>

\* the page after mount: the saved watchlist and timeframes are loaded and
\* the first fetchData is in flight
PageInit ==
    /\ StoreInit
    /\ watchlist = <<"BTCUSD">>
    /\ enabledTimeframes = <<"1m">>
    /\ screenerData = EmptyMap
    /\ alerts = <<>>
    /\ previousData = EmptyMap
    /\ isInitialLoad = TRUE
    /\ fetches = fetchData(watchlist, enabledTimeframes)
    /\ lastEvent = Event("mount", "", "", NoCandle, FALSE, NoAnalysis, NoCheck)
    /\ LegacyIdle
    /\ HistoryInit /\ SocketIdle

PageNext ==
    \/ \E j \in 1..(1 + MaxRefreshes), s \in Symbols, tf \in PageTimeframes,
          b \in PageBatches :
          FetchKeyDone(j, s, tf, b)
    \/ \E s \in Symbols, tf \in PageTimeframes, c \in ScreenerTicks :
          HandleCandleUpdate(s, tf, c)
    \/ FetchData
    \/ \E s \in Symbols : HandleAddSymbol(s)
    \/ \E s \in Symbols : HandleRemoveSymbol(s)
    \/ HandleClearAlerts
    \/ \E tf \in PageTimeframes : HandleToggleTimeframe(tf)

SpecPage == PageInit /\ [][PageNext]_vars

----------------------------------------------------------------------------
(* The legacy polling screener of frontend/js/app.js: every refresh fetches *)
(* the history of each watchlist symbol and analyses it afresh (there is    *)
(* no candle store), then runs App.checkForAlerts and updatePreviousStates. *)

\* how many refreshes (timer, button, added symbol) the legacy App starts
MaxPolls == 2

\* settings.visibleTimeframes
LegacyTimeframes == <<"1m">>

\* Storage.saveAlert for each alert in turn: unshift, then slice(0, 50)
RECURSIVE saveAlerts(_, _)
saveAlerts(stored, newAlerts) ==
    IF Len(newAlerts) = 0
    THEN stored
    ELSE saveAlerts(SubSeq(<<Head(newAlerts)>> \o stored, 1, Min(MAX_ALERTS, Len(stored) + 1)),
                    Tail(newAlerts))

\* the if / else-if chain of App.checkForAlerts for one key whose current
\* snapshot is OK; hasPrevious is false when previous is undefined
LegacyCompare(symbol, tf, current, hasPrevious, previous) ==
    IF current.signal # NULL /\ (~hasPrevious \/ previous.signal # current.signal)
    THEN <<Alert("breakout", symbol, tf, current)>>
    ELSE IF /\ IsSqueeze(current.squeezeState)
            /\ (~hasPrevious \/ previous.squeezeState = "NORMAL")
    THEN <<Alert("squeeze_entry", symbol, tf, current)>>
    ELSE IF /\ current.squeezeState = "TIGHT_SQUEEZE"
            /\ hasPrevious /\ previous.squeezeState = "SQUEEZE"
    THEN <<Alert("tight_squeeze", symbol, tf, current)>>
    ELSE <<>>

RECURSIVE LegacyCheckKeys(_, _, _)
\* App.checkForAlerts: the alerts it adds, in the order it adds them
LegacyCheckKeys(keys, data, previousStates) ==
    IF Len(keys) = 0
    THEN <<>>
    ELSE LET symbol == keys[1][1]
             tf == keys[1][2]
         IN (IF HasSnapshot(data, symbol, tf) /\ data[symbol][tf].status = "OK"
             THEN LegacyCompare(symbol, tf, data[symbol][tf],
                                HasSnapshot(previousStates, symbol, tf),
                                IF HasSnapshot(previousStates, symbol, tf)
                                THEN previousStates[symbol][tf] ELSE NoAnalysis)
             ELSE <<>>)
            \o LegacyCheckKeys(Tail(keys), data, previousStates)

\* deltaAPI.analyzeMultipleSymbols: the analysis of what each fetch answered
LegacyResults(symbols, answers) ==
    [s \in {symbols[i] : i \in 1..Len(symbols)} |->
        [tf \in {LegacyTimeframes[j] : j \in 1..Len(LegacyTimeframes)} |->
            Analysis(Fetched(answers[s]))]]

\* a refreshScreenerData without the isLoading test
StartRefresh_reentrant(a) == [a EXCEPT !.isLoading = TRUE, !.pending = a.watchlist]

\* the synchronous start of refreshScreenerData; nothing when one is running
StartRefresh(a) ==
    IF a.isLoading THEN a ELSE [a EXCEPT !.isLoading = TRUE, !.pending = a.watchlist]

LegacyInit ==
    /\ StoreInit
    /\ PageIdle
    /\ app = [watchlist |-> <<"BTCUSD">>, screenerData |-> EmptyMap,
              previousStates |-> EmptyMap, isLoading |-> FALSE, pending |-> <<>>]
    /\ storedAlerts = <<>>
    /\ lastRefresh = Refresh("init", <<>>, EmptyMap, <<>>)
    /\ HistoryInit /\ SocketIdle

\* refreshScreenerData is called: by init, the refresh button or the timer
RefreshScreenerData ==
    /\ count.refreshes < MaxPolls
    /\ count' = [count EXCEPT !.refreshes = @ + 1]
    /\ app' = StartRefresh(app)
    /\ lastRefresh' = Refresh(IF app.isLoading THEN "skipped" ELSE "started",
                              app.watchlist, EmptyMap, <<>>)
    /\ UNCHANGED <<storedAlerts, computedKeys>>
    /\ UNCHANGED <<storeVars, pageVars, socketVars, newCandleReports>>

\* analyzeMultipleSymbols answers and refreshScreenerData resumes
RefreshDone(answers) ==
    /\ app.isLoading
    /\ LET data == LegacyResults(app.pending, answers)
           symbols == [i \in 1..Len(app.pending) |-> app.pending[i]]
           newAlerts == LegacyCheckKeys(LoopKeys(symbols, LegacyTimeframes), data,
                                        app.previousStates)
       IN /\ app' = [app EXCEPT !.screenerData = data, !.previousStates = data,
                                !.isLoading = FALSE, !.pending = <<>>]
          /\ storedAlerts' = saveAlerts(storedAlerts, newAlerts)
          /\ lastRefresh' = Refresh("done", app.pending, data, newAlerts)
          /\ computedKeys' = computedKeys \cup
                {<<symbols[i], LegacyTimeframes[j]>> :
                    i \in 1..Len(symbols), j \in 1..Len(LegacyTimeframes)}
    /\ UNCHANGED count
    /\ UNCHANGED <<storeVars, pageVars, socketVars, newCandleReports>>

addSymbolToWatchlist(symbol) ==
    /\ count.refreshes < MaxPolls
    /\ ~Includes(app.watchlist, symbol)
    /\ count' = [count EXCEPT !.refreshes = @ + 1]
    /\ app' = StartRefresh([app EXCEPT !.watchlist = Append(@, symbol)])
    /\ lastRefresh' = Refresh(IF app.isLoading THEN "added" ELSE "started",
                              app'.watchlist, EmptyMap, <<>>)
    /\ UNCHANGED <<storedAlerts, computedKeys>>
    /\ UNCHANGED <<storeVars, pageVars, socketVars, newCandleReports>>

removeSymbolFromWatchlist(symbol) ==
    /\ Includes(app.watchlist, symbol)
    /\ app' = [app EXCEPT !.watchlist = Without(@, symbol),
                          !.screenerData = MapDelete(@, symbol),
                          !.previousStates = MapDelete(@, symbol)]
    /\ lastRefresh' = Refresh("removed", app'.watchlist, EmptyMap, <<>>)
    /\ UNCHANGED <<storedAlerts, computedKeys, count>>
    /\ UNCHANGED <<storeVars, pageVars, socketVars, newCandleReports>>

clearAlerts ==
    /\ Len(storedAlerts) > 0
    /\ storedAlerts' = <<>>
    /\ lastRefresh' = Refresh("cleared", app.watchlist, EmptyMap, <<>>)
    /\ UNCHANGED <<app, computedKeys, count>>
    /\ UNCHANGED <<storeVars, pageVars, socketVars, newCandleReports>>

LegacyNext ==
    \/ RefreshScreenerData
    \/ \E answers \in [Symbols -> ScreenerBatches] : RefreshDone(answers)
    \/ \E s \in Symbols : addSymbolToWatchlist(s)
    \/ \E s \in Symbols : removeSymbolFromWatchlist(s)
    \/ clearAlerts

SpecLegacy == LegacyInit /\ [][LegacyNext]_vars

\* where the try block of refreshScreenerData may throw: at the await (the
\* promise rejects), in checkForAlerts, or in renderScreenerTable
ThrowPoints == {"analyzeMultipleSymbols", "checkForAlerts", "renderScreenerTable"}

\* refreshScreenerData resumes and a statement of the try block throws: the
\* statements before it have run, then catch and finally
RefreshThrows(answers, point) ==
    /\ app.isLoading
    /\ LET data == LegacyResults(app.pending, answers)
           symbols == [i \in 1..Len(app.pending) |-> app.pending[i]]
           newAlerts == LegacyCheckKeys(LoopKeys(symbols, LegacyTimeframes), data,
                                        app.previousStates)
       IN /\ app' = [app EXCEPT
                        !.screenerData = IF point = "analyzeMultipleSymbols" THEN @ ELSE data,
                        !.previousStates = IF point = "renderScreenerTable" THEN data ELSE @,
                        !.isLoading = FALSE, !.pending = <<>>]
          /\ storedAlerts' = IF point = "renderScreenerTable"
                             THEN saveAlerts(storedAlerts, newAlerts)
                             ELSE storedAlerts
          /\ lastRefresh' = Refresh("failed", app.pending, app'.screenerData, <<>>)
          /\ computedKeys' = IF point = "analyzeMultipleSymbols" THEN computedKeys
                             ELSE computedKeys \cup
                                    {<<symbols[i], LegacyTimeframes[j]>> :
                                        i \in 1..Len(symbols), j \in 1..Len(LegacyTimeframes)}
    /\ UNCHANGED count
    /\ UNCHANGED <<storeVars, pageVars, socketVars, newCandleReports>>

LegacyThrowsNext ==
    \/ LegacyNext
    \/ \E answers \in [Symbols -> ScreenerBatches], point \in ThrowPoints :
          RefreshThrows(answers, point)

SpecLegacyThrows == LegacyInit /\ [][LegacyThrowsNext]_vars

----------------------------------------------------------------------------
(* The alert engines fed directly: checkForAlerts of page.tsx, called as    *)
(* fetchData and handleCandleUpdate call it, and App.addAlert of the legacy *)
(* front end, on the snapshots that analyzeVolatility gives for the engine  *)
(* payloads.  The alert log starts as an earlier session saved it.          *)

\* how many times checkForAlerts is called
MaxChecks == 2

\* how many times the legacy App saves an alert
MaxSaves == 1

\* the snapshots the engine is fed with
EngineSnapshots == {analyzeVolatility(Fetched(b)) : b \in EngineBatches}

\* the full results initializeCandleStore may return for the watchlist
EngineData(symbols, timeframes) ==
    [{symbols[i] : i \in 1..Len(symbols)} ->
        [{timeframes[j] : j \in 1..Len(timeframes)} -> EngineSnapshots]]

\* the log of n alerts an earlier session saved, newest first; the price
\* of an alert tells its age (1 for the oldest)
SavedLog(n) ==
    [i \in 1..n |->
        [type |-> "breakout", symbol |-> "BTCUSD", timeframe |-> "1m", price |-> n + 1 - i,
         signal |-> "BULLISH_BREAKOUT", squeezeState |-> NULL, squeezeBars |-> 0]]

SavedLogs == {SavedLog(0), SavedLog(MAX_ALERTS - 1), SavedLog(MAX_ALERTS)}

\* the alerts the legacy App hands to addAlert
LegacyAlerts ==
    { Alert("squeeze_entry", "BTCUSD", "1m", analyzeVolatility(Fetched(<<"calm", LOOKBACK_PERIOD>>))),
      Alert("breakout", "ETHUSD", "1m",
            analyzeVolatility(Fetched(<<"surge", LOOKBACK_PERIOD + 1>>))) }

AlertsInit ==
    /\ StoreInit
    /\ watchlist = <<"BTCUSD", "ETHUSD">>
    /\ enabledTimeframes = <<"1m">>
    /\ screenerData = EmptyMap
    /\ previousData = EmptyMap
    /\ isInitialLoad = TRUE
    /\ fetches = <<>>
    /\ lastEvent = Event("mount", "", "", NoCandle, FALSE, NoAnalysis, NoCheck)
    /\ app = [watchlist |-> <<>>, screenerData |-> EmptyMap, previousStates |-> EmptyMap,
              isLoading |-> FALSE, pending |-> <<>>]
    /\ lastRefresh = Refresh("none", <<>>, EmptyMap, <<>>)
    /\ \E log \in SavedLogs : alerts = log /\ storedAlerts = log
    /\ HistoryInit /\ SocketIdle

\* fetchData resumes with the results of initializeCandleStore:
\* checkForAlerts(data, enabledTimeframes), setScreenerData(data)
CheckFullUpdate(data) ==
    /\ count.refreshes < MaxChecks
    /\ Len(watchlist) > 0 /\ Len(enabledTimeframes) > 0
    /\ count' = [count EXCEPT !.refreshes = @ + 1]
    /\ LET r == checkForAlerts(Refs, data, watchlist, enabledTimeframes, TRUE)
       IN /\ previousData' = r.previousData
          /\ isInitialLoad' = r.isInitialLoad
          /\ alerts' = r.alerts
          /\ lastEvent' = Event("fetchData", "", "", NoCandle, FALSE, NoAnalysis, Checked(r))
    /\ screenerData' = data
    /\ computedKeys' = computedKeys \cup
          {<<watchlist[i], enabledTimeframes[j]>> :
              i \in 1..Len(watchlist), j \in 1..Len(enabledTimeframes)}
    /\ lastRefresh' = Refresh("none", <<>>, EmptyMap, <<>>)
    /\ UNCHANGED <<candleStore, lastCall, watchlist, enabledTimeframes, fetches, app,
                   storedAlerts, socketVars, newCandleReports>>

\* handleCandleUpdate for a tick that opened a new candle, from the
\* analysis on: setScreenerData, checkForAlerts(newData, [timeframe], false)
CheckIncremental(symbol, timeframe, analysis) ==
    /\ count.refreshes < MaxChecks
    /\ Includes(watchlist, symbol) /\ Includes(enabledTimeframes, timeframe)
    /\ count' = [count EXCEPT !.refreshes = @ + 1]
    /\ LET r == checkForAlerts(Refs, SetSnapshot(EmptyMap, symbol, timeframe, analysis),
                               <<symbol>>, <<timeframe>>, FALSE)
       IN /\ previousData' = r.previousData
          /\ isInitialLoad' = r.isInitialLoad
          /\ alerts' = r.alerts
          /\ lastEvent' = Event("handleCandleUpdate", symbol, timeframe, NoCandle, TRUE,
                                analysis, Checked(r))
    /\ screenerData' = SetSnapshot(screenerData, symbol, timeframe, analysis)
    /\ computedKeys' = computedKeys \cup {<<symbol, timeframe>>}
    /\ lastRefresh' = Refresh("none", <<>>, EmptyMap, <<>>)
    /\ UNCHANGED <<candleStore, lastCall, watchlist, enabledTimeframes, fetches, app,
                   storedAlerts, socketVars, newCandleReports>>

\* App.addAlert of the legacy front end: Storage.saveAlert(alert);
\* count.ticks counts the saves
AddAlert(alert) ==
    /\ count.ticks < MaxSaves
    /\ count' = [count EXCEPT !.ticks = @ + 1]
    /\ storedAlerts' = saveAlerts(storedAlerts, <<alert>>)
    /\ lastRefresh' = Refresh("addAlert", <<>>, EmptyMap, <<alert>>)
    /\ lastEvent' = Event("none", "", "", NoCandle, FALSE, NoAnalysis, NoCheck)
    /\ UNCHANGED <<app, computedKeys, storeVars, watchlist, enabledTimeframes, screenerData,
                   alerts, previousData, isInitialLoad, fetches, socketVars, newCandleReports>>

AlertsNext ==
    \/ \E data \in EngineData(<<"BTCUSD", "ETHUSD">>, TIMEFRAMES) : CheckFullUpdate(data)
    \/ \E s \in Symbols, tf \in PageTimeframes, analysis \in EngineSnapshots :
          CheckIncremental(s, tf, analysis)
    \/ \E alert \in LegacyAlerts : AddAlert(alert)

SpecAlerts == AlertsInit /\ [][AlertsNext]_vars

----------------------------------------------------------------------------
(* The analysis functions of src/lib/indicators.ts and the backfill of one  *)
(* key by initializeCandleStore: the initial state holds a call and its     *)
(* argument, the step makes the call and records what it returned.          *)

AnalysisCall(op, arg, done, ret) == [op |-> op, arg |-> arg, done |-> done, ret |-> ret]

\* the arguments of analyzeVolatility: null and the parsed histories
AnalysisArgs ==
    {[isNull |-> TRUE, candles |-> <<>>]}
    \cup {[isNull |-> FALSE, candles |-> Fetched(b)] : b \in AnalysisBatches}

\* the volumes given to a window: all 1; a last candle at three times the
\* others; a last candle at exactly, and just under, 1.5 times the average of
\* the last 20; and no volume at all (the average is 0)
VolumeProfiles == {"unit", "surge", "threshold", "under", "none"}

VolumeOf(profile, isLast) ==
    CASE profile = "unit" -> 1
      [] profile = "surge" -> IF isLast THEN 3 ELSE 1
      [] profile = "threshold" -> IF isLast THEN 57 ELSE 37
      [] profile = "under" -> IF isLast THEN 56 ELSE 37
      [] profile = "none" -> 0

WithVolumes(candles, profile) ==
    SubSeq([i \in 1..Len(candles) |->
               [candles[i] EXCEPT !.volume = VolumeOf(profile, i = Len(candles))]],
           1, Len(candles))

\* the histories analysed under two volume profiles: a bullish and a bearish
\* breakout, a squeeze without breakout, and a window of BB_PERIOD + MaxExtra
\* candles
VolumeBatches ==
    { <<"surge", LOOKBACK_PERIOD + 1>>, <<"drop", LOOKBACK_PERIOD + 1>>,
      <<"calm", LOOKBACK_PERIOD>>, <<"surge", BB_PERIOD + MaxExtra>> }

\* the arguments of two calls of analyzeVolatility on one history with two
\* volume profiles
VolumeArgs ==
    {[isNull |-> FALSE, candles |-> WithVolumes(Fetched(b), p),
      other |-> WithVolumes(Fetched(b), q)] :
        b \in VolumeBatches, p \in VolumeProfiles, q \in VolumeProfiles}

\* the series percentileRank is applied to, each value a pair <<S, V>> as
\* BandStats gives them, here with S = 100 so that the values order as V:
\*   rising   each value above the one before
\*   falling  each value below the one before
\*   level    all values equal
\*   sparse   null but for the last two values
\*   single   null but for the last value
\*   gap      rising, the last value null
\*   holes    rising, every second value null
\*   wave     values going up and down between 1 and 11, the third null
SeriesShapes == {"rising", "falling", "level", "sparse", "single", "gap", "holes", "wave"}

Series(shape, n) ==
    [i \in 1..n |->
        CASE shape = "rising" -> <<100, i>>
          [] shape = "falling" -> <<100, n - i + 1>>
          [] shape = "level" -> <<100, 4>>
          [] shape = "sparse" -> IF i >= n - 1 THEN <<100, i>> ELSE <<NullNum, NullNum>>
          [] shape = "single" -> IF i = n THEN <<100, i>> ELSE <<NullNum, NullNum>>
          [] shape = "gap" -> IF i = n THEN <<NullNum, NullNum>> ELSE <<100, i>>
          [] shape = "holes" -> IF i % 2 = 0 THEN <<NullNum, NullNum>> ELSE <<100, i>>
          [] shape = "wave" -> IF i = 3 THEN <<NullNum, NullNum>>
                               ELSE <<100, ((i * 37) % 11) + 1>>]

\* what is done to every value of a series that is not null: a constant is
\* added, or the value is replaced by its square (the values are positive)
Transforms == {"add 7", "square"}

Transformed(series, transform) ==
    [i \in 1..Len(series) |->
        IF series[i][1] = NullNum THEN series[i]
        ELSE IF transform = "add 7" THEN <<series[i][1], series[i][2] + 7>>
        ELSE <<series[i][1], series[i][2] * series[i][2]>>]

\* the arguments of percentileRank: the series of each shape, one value short
\* of the lookback, of the lookback and longer, and the Bollinger widths of
\* the engine histories
SeriesArgs ==
    {Series(shape, n) : shape \in SeriesShapes,
                        n \in (LOOKBACK_PERIOD - 1)..(LOOKBACK_PERIOD + 1 + MaxExtra)}
    \cup {BandStats(Closes(Fetched(b))) : b \in EngineBatches}

\* the arguments of detectSqueezeState: null and the percentiles
\* countLess / (window.length - 1) * 100 of a window of up to LOOKBACK_PERIOD values
Percentiles ==
    {<<NullNum, NullNum>>}
    \cup {pct \in (0..(LOOKBACK_PERIOD - 1)) \X (1..(LOOKBACK_PERIOD - 1)) : pct[1] <= pct[2]}

\* percentile series of two bars for the regime: null, tight squeeze,
\* squeeze, normal and expansion widths; null, low and high ATR percentiles
WidthPercentileSeries ==
    {<<NullNum, NullNum>>, <<5, 99>>, <<15, 99>>, <<50, 99>>, <<80, 99>>}
    \X {<<NullNum, NullNum>>, <<5, 99>>, <<15, 99>>, <<50, 99>>, <<80, 99>>}

AtrPercentileSeries ==
    {<<NullNum, NullNum>>, <<5, 99>>, <<90, 99>>}
    \X {<<NullNum, NullNum>>, <<5, 99>>, <<90, 99>>}

\* squeezeState and squeezeBars as analyzeVolatility derives them from the two
\* percentile series: indicators.ts maps detectSqueezeState over the width
\* percentiles, indicators.js passes the ATR percentile of the bar as well
Regime(impl, bbWidthPercentileArr, atrPercentileArr) ==
    LET squeezeStates ==
            [i \in 1..Len(bbWidthPercentileArr) |->
                IF impl = "indicators.ts"
                THEN detectSqueezeState(bbWidthPercentileArr[i])
                ELSE detectSqueezeStateOfBoth(bbWidthPercentileArr[i], atrPercentileArr[i])]
    IN [squeezeState |-> squeezeStates[Len(squeezeStates)],
        squeezeBars |-> countSqueezeBars(squeezeStates)]

\* a window whose last k candles came from streamed messages without prices
\* and volume: handleMessage gives them 0 for every field but the time
ZeroTail(candles, k) ==
    SubSeq([i \in 1..Len(candles) |->
               IF i > Len(candles) - k THEN Candle(candles[i].time, 0, 0) ELSE candles[i]],
           1, Len(candles))

\* the windows whose whole snapshot is looked at: the fetched histories, and
\* histories that end in 1, BB_PERIOD - 1, BB_PERIOD and more streamed
\* candles of zeros
IndicatorArgs ==
    {[isNull |-> FALSE, candles |-> Fetched(b)] : b \in IndicatorBatches}
    \cup {[isNull |-> FALSE, candles |-> ZeroTail(Fetched(b), k)] :
             b \in {<<"calm", BB_PERIOD>>, <<"calm", LOOKBACK_PERIOD>>,
                    <<"surge", LOOKBACK_PERIOD + 1>>},
             k \in {1, BB_PERIOD - 1, BB_PERIOD, BB_PERIOD + 1}}
    \cup {[isNull |-> FALSE, candles |-> ZeroTail(Fetched(<<"calm", LOOKBACK_PERIOD>>), k)] :
             k \in {LOOKBACK_PERIOD - 1, LOOKBACK_PERIOD}}

\* the arguments of a backfill: the key and what the exchange answers
BackfillArgs ==
    {[symbol |-> s, timeframe |-> tf, batch |-> b] :
        s \in Symbols, tf \in Timeframes, b \in BackfillBatches}

\* the stores a backfill may find: empty, or a window left by an earlier one
BackfillStores ==
    {EmptyMap, storeCandles(EmptyMap, "BTCUSD", "1m", Fetched(<<"calm", LOOKBACK_PERIOD>>))}

AnalysisInit ==
    /\ PageIdle /\ LegacyIdle /\ HistoryInit /\ SocketIdle
    /\ \/ /\ candleStore = EmptyMap
          /\ \E arg \in AnalysisArgs :
                lastCall = AnalysisCall("analyzeVolatility", arg, FALSE, NULL)
       \/ /\ candleStore = EmptyMap
          /\ \E arg \in IndicatorArgs :
                lastCall = AnalysisCall("analyzeVolatility (all fields)", arg, FALSE, NULL)
       \/ /\ candleStore = EmptyMap
          /\ \E pct \in Percentiles :
                lastCall = AnalysisCall("detectSqueezeState", pct, FALSE, NULL)
       \/ /\ candleStore = EmptyMap
          /\ \E arg \in AnalysisArgs :
                /\ ~arg.isNull
                /\ lastCall = AnalysisCall("detectBreakout", arg, FALSE, NULL)
       \/ /\ candleStore = EmptyMap
          /\ \E series \in SeriesArgs, op \in {"percentileRank", "percentileRank (trading-signals)"} :
                lastCall = AnalysisCall(op, series, FALSE, NULL)
       \/ /\ candleStore = EmptyMap
          /\ \E arg \in VolumeArgs :
                lastCall = AnalysisCall("analyzeVolatility twice", arg, FALSE, NULL)
       \/ /\ candleStore = EmptyMap
          /\ \E arg \in IndicatorArgs :
                lastCall = AnalysisCall("indicator series", arg, FALSE, NULL)
       \/ /\ candleStore = EmptyMap
          /\ \E impl \in {"indicators.ts", "indicators.js"}, bb \in WidthPercentileSeries,
                atr1 \in AtrPercentileSeries, atr2 \in AtrPercentileSeries :
                lastCall = AnalysisCall("regime of two windows",
                                        [impl |-> impl, bbWidthPercentile |-> bb,
                                         atrPercentile |-> <<atr1, atr2>>], FALSE, NULL)
       \/ /\ candleStore = EmptyMap
          /\ \E shape \in SeriesShapes, transform \in Transforms,
                n \in (LOOKBACK_PERIOD - 1)..(LOOKBACK_PERIOD + 1 + MaxExtra) :
                lastCall = AnalysisCall("percentileRank of two series",
                                        [data |-> Series(shape, n), transform |-> transform],
                                        FALSE, NULL)
       \/ /\ candleStore = EmptyMap
          /\ \E b \in OutlierBatches :
                lastCall = AnalysisCall("fetchCandles", b, FALSE, NULL)
       \/ /\ candleStore \in BackfillStores
          /\ \E arg \in BackfillArgs :
                lastCall = AnalysisCall("initializeCandleStore", arg, FALSE, NULL)

AnalyzeVolatility ==
    /\ lastCall.op = "analyzeVolatility" /\ ~lastCall.done
    /\ lastCall' = AnalysisCall("analyzeVolatility", lastCall.arg, TRUE,
                                analyzeVolatilityOrNull(lastCall.arg))
    /\ UNCHANGED <<candleStore, pageVars, legacyVars, historyVars, socketVars, newCandleReports>>

\* analyzeVolatility on a window with enough history, every field of the
\* snapshot kept
AnalyzeAllFields ==
    /\ lastCall.op = "analyzeVolatility (all fields)" /\ ~lastCall.done
    /\ lastCall' = AnalysisCall("analyzeVolatility (all fields)", lastCall.arg, TRUE,
                                VolatilityAnalysis(lastCall.arg.candles))
    /\ UNCHANGED <<candleStore, pageVars, legacyVars, historyVars, socketVars, newCandleReports>>

DetectSqueezeState ==
    /\ lastCall.op = "detectSqueezeState" /\ ~lastCall.done
    /\ lastCall' = AnalysisCall("detectSqueezeState", lastCall.arg, TRUE,
                                detectSqueezeState(lastCall.arg))
    /\ UNCHANGED <<candleStore, pageVars, legacyVars, historyVars, socketVars, newCandleReports>>

PercentileRank ==
    /\ lastCall.op = "percentileRank" /\ ~lastCall.done
    /\ lastCall' = AnalysisCall("percentileRank", lastCall.arg, TRUE,
                                [i \in 1..Len(lastCall.arg) |-> percentileRank(lastCall.arg, i)])
    /\ UNCHANGED <<candleStore, pageVars, legacyVars, historyVars, socketVars, newCandleReports>>

PercentileRankTradingSignals ==
    /\ lastCall.op = "percentileRank (trading-signals)" /\ ~lastCall.done
    /\ lastCall' = AnalysisCall("percentileRank (trading-signals)", lastCall.arg, TRUE,
                                [i \in 1..Len(lastCall.arg) |->
                                    percentileRank_tradingSignals(lastCall.arg, i)])
    /\ UNCHANGED <<candleStore, pageVars, legacyVars, historyVars, socketVars, newCandleReports>>

\* analyzeVolatility called on two windows, one after the other
AnalyzeVolumes ==
    /\ lastCall.op = "analyzeVolatility twice" /\ ~lastCall.done
    /\ lastCall' = AnalysisCall("analyzeVolatility twice", lastCall.arg, TRUE,
                                <<analyzeVolatility(lastCall.arg.candles),
                                  analyzeVolatility(lastCall.arg.other)>>)
    /\ UNCHANGED <<candleStore, pageVars, legacyVars, historyVars, socketVars, newCandleReports>>

\* detectBreakout on the series analyzeVolatility computes from the candles
breakoutOf(candles) ==
    LET stats == BandStats(Closes(candles))
    IN detectBreakout(Closes(candles), stats, SqueezeStates(stats))

DetectBreakout ==
    /\ lastCall.op = "detectBreakout" /\ ~lastCall.done
    /\ lastCall' = AnalysisCall("detectBreakout", lastCall.arg, TRUE,
                                breakoutOf(lastCall.arg.candles))
    /\ UNCHANGED <<candleStore, pageVars, legacyVars, historyVars, socketVars, newCandleReports>>

\* the backfill of one key that analyses the window the store holds for the
\* key after the fetch, not the candles the fetch returned
InitializeKey_analyzeStored ==
    /\ lastCall.op = "initializeCandleStore" /\ ~lastCall.done
    /\ LET symbol == lastCall.arg.symbol
           tf == lastCall.arg.timeframe
           candles == Fetched(lastCall.arg.batch)
       IN /\ candleStore' = IF Len(candles) > 0
                            THEN storeCandles(candleStore, symbol, tf, candles)
                            ELSE candleStore
          /\ lastCall' = AnalysisCall("initializeCandleStore", lastCall.arg, TRUE,
                                      IF HasWindow(candleStore', symbol, tf)
                                      THEN analyzeVolatility(candleStore'[symbol][tf])
                                      ELSE InsufficientData)
    /\ UNCHANGED <<pageVars, legacyVars, historyVars, socketVars, newCandleReports>>

\* the body of initializeCandleStore for one key: fetchAndStoreCandles,
\* then analyzeVolatility of the candles it returned
InitializeKey ==
    /\ lastCall.op = "initializeCandleStore" /\ ~lastCall.done
    /\ LET symbol == lastCall.arg.symbol
           tf == lastCall.arg.timeframe
           candles == Fetched(lastCall.arg.batch)
       IN /\ candleStore' = IF Len(candles) > 0
                            THEN storeCandles(candleStore, symbol, tf, candles)
                            ELSE candleStore
          /\ lastCall' = AnalysisCall("initializeCandleStore", lastCall.arg, TRUE,
                                      analyzeVolatility(candles))
    /\ UNCHANGED <<pageVars, legacyVars, historyVars, socketVars, newCandleReports>>

\* fetchCandles on the answer of the exchange
FetchCandles ==
    /\ lastCall.op = "fetchCandles" /\ ~lastCall.done
    /\ lastCall' = AnalysisCall("fetchCandles", lastCall.arg, TRUE, Fetched(lastCall.arg))
    /\ UNCHANGED <<candleStore, pageVars, legacyVars, historyVars, socketVars, newCandleReports>>

\* calculateBollingerBands, calculateATR and volumeRatio on a window
CalculateSeries ==
    /\ lastCall.op = "indicator series" /\ ~lastCall.done
    /\ lastCall' = AnalysisCall("indicator series", lastCall.arg, TRUE,
                                IndicatorSeries(lastCall.arg.candles))
    /\ UNCHANGED <<candleStore, pageVars, legacyVars, historyVars, socketVars, newCandleReports>>

\* the regime of two windows whose width percentiles are the same series
ClassifyRegimes ==
    /\ lastCall.op = "regime of two windows" /\ ~lastCall.done
    /\ lastCall' = AnalysisCall("regime of two windows", lastCall.arg, TRUE,
                                [w \in 1..2 |->
                                    Regime(lastCall.arg.impl, lastCall.arg.bbWidthPercentile,
                                           lastCall.arg.atrPercentile[w])])
    /\ UNCHANGED <<candleStore, pageVars, legacyVars, historyVars, socketVars, newCandleReports>>

\* percentileRank of a series and of the series with every value transformed
PercentileRankOfBoth ==
    /\ lastCall.op = "percentileRank of two series" /\ ~lastCall.done
    /\ LET data == lastCall.arg.data
           other == Transformed(data, lastCall.arg.transform)
       IN lastCall' = AnalysisCall("percentileRank of two series", lastCall.arg, TRUE,
                                   <<[i \in 1..Len(data) |-> percentileRank(data, i)],
                                     [i \in 1..Len(other) |-> percentileRank(other, i)]>>)
    /\ UNCHANGED <<candleStore, pageVars, legacyVars, historyVars, socketVars, newCandleReports>>

AnalysisNext ==
    \/ FetchCandles
    \/ PercentileRankOfBoth
    \/ ClassifyRegimes
    \/ CalculateSeries
    \/ AnalyzeVolatility
    \/ AnalyzeAllFields
    \/ DetectSqueezeState
    \/ DetectBreakout
    \/ PercentileRank
    \/ PercentileRankTradingSignals
    \/ AnalyzeVolumes
    \/ InitializeKey

SpecAnalysis == AnalysisInit /\ [][AnalysisNext]_vars

----------------------------------------------------------------------------
(* One call of initializeCandleStore or of analyzeMultipleSymbols: the      *)
(* symbols are taken in batches of batchSize, the fetches of a batch (one   *)
(* for each symbol and timeframe) are started together, and Promise.all     *)
(* resumes the loop when the last of them has answered.                     *)

\* how many symbols the longest list of a call holds
MaxSymbols == 6

SymbolList ==
    <<"BTCUSD", "ETHUSD", "SOLUSD", "XRPUSD", "BNBUSD", "DOGEUSD", "ADAUSD", "LTCUSD">>

BackfillTimeframes == <<"1m", "5m">>

\* the lists of symbols of a call: none, one full batch, and more than a batch
SymbolLists == {SubSeq(SymbolList, 1, n) : n \in {0, batchSize, MaxSymbols}}

\* what the exchange answers to a history request of the call
CallBatches == {<<"http error", 0>>, <<"calm", BB_PERIOD - 1>>}

\* the call in flight, or none
CallInFlight == IF Len(fetches) = 0 THEN <<>> ELSE fetches[1]

CallInit ==
    /\ candleStore = EmptyMap
    /\ lastCall = AnalysisCall("init", <<>>, FALSE, EmptyMap)
    /\ PageIdle /\ LegacyIdle /\ HistoryInit /\ SocketIdle

\* the call runs up to its first await: the fetches of the first batch are
\* sent; with no symbol the loop is not entered and the call returns {}
StartCall(op, symbols) ==
    /\ lastCall.op = "init"
    /\ lastCall' = AnalysisCall(op, symbols, Len(symbols) = 0, EmptyMap)
    /\ fetches' = IF Len(symbols) = 0
                  THEN <<>>
                  ELSE << [symbols |-> symbols, timeframes |-> BackfillTimeframes,
                           batchStart |-> 1,
                           pending |-> BatchKeys(symbols, BackfillTimeframes, 1),
                           results |-> EmptyMap] >>
    /\ UNCHANGED <<candleStore, watchlist, enabledTimeframes, screenerData, alerts,
                   previousData, isInitialLoad, lastEvent, legacyVars, historyVars, socketVars, newCandleReports>>

\* one fetch of the batch in flight answers; initializeCandleStore stores the
\* candles, analyzeMultipleSymbols does not.  The last answer of a batch
\* resumes the loop: the next batch is sent, or the call returns the results
KeyFetched(symbol, tf, b) ==
    /\ Len(fetches) = 1
    /\ <<symbol, tf>> \in fetches[1].pending
    /\ LET fetch == fetches[1]
           candles == Fetched(b)
           results == MapSet(fetch.results, <<symbol, tf>>, Analysis(candles))
           pending == fetch.pending \ {<<symbol, tf>>}
           nextStart == fetch.batchStart + batchSize
       IN /\ candleStore' = IF lastCall.op = "initializeCandleStore" /\ Len(candles) > 0
                            THEN storeCandles(candleStore, symbol, tf, candles)
                            ELSE candleStore
          /\ IF pending # {}
             THEN /\ fetches' = [fetches EXCEPT ![1].results = results, ![1].pending = pending]
                  /\ UNCHANGED lastCall
             ELSE IF nextStart <= Len(fetch.symbols)
             THEN /\ fetches' = [fetches EXCEPT
                                   ![1].results = results,
                                   ![1].batchStart = nextStart,
                                   ![1].pending = BatchKeys(fetch.symbols, fetch.timeframes,
                                                            nextStart)]
                  /\ UNCHANGED lastCall
             ELSE /\ fetches' = <<>>
                  /\ lastCall' = AnalysisCall(lastCall.op, lastCall.arg, TRUE,
                                              ResultsOf(fetch, results))
    /\ UNCHANGED <<watchlist, enabledTimeframes, screenerData, alerts,
                   previousData, isInitialLoad, lastEvent, legacyVars, historyVars, socketVars, newCandleReports>>

CallNext ==
    \/ \E symbols \in SymbolLists : StartCall("initializeCandleStore", symbols)
    \/ \E symbols \in SymbolLists : StartCall("analyzeMultipleSymbols", symbols)
    \/ \E i \in 1..Len(SymbolList), j \in 1..Len(BackfillTimeframes), b \in CallBatches :
          KeyFetched(SymbolList[i], BackfillTimeframes[j], b)

SpecCall == CallInit /\ [][CallNext]_vars

----------------------------------------------------------------------------
(* The streaming client of delta-websocket.ts and the page effect that      *)
(* connects it.  Every WebSocket the client creates keeps the handlers      *)
(* connect() gave it; the handlers read the fields of the client when they  *)
(* run.                                                                     *)

\* how many WebSockets the client creates in a behaviour
MaxSockets == 3

maxReconnectAttempts == 10

\* a WebSocket: its readyState, and whether the page awaits the promise of
\* the connect() that created it
WebSocket(readyState, awaited) == [readyState |-> readyState, awaited |-> awaited]

\* DeltaWebSocket.connect(onCandle, onStatus): onStatus || null
connect(dws, onStatus, awaited) ==
    [dws EXCEPT !.onCandleCallback = TRUE,
                !.onStatusCallback = onStatus,
                !.isIntentionallyClosed = FALSE,
                !.sockets = Append(@, WebSocket("CONNECTING", awaited)),
                !.ws = Len(dws.sockets) + 1]

\* DeltaWebSocket.isConnected
isConnected(dws) == dws.ws # 0 /\ dws.sockets[dws.ws].readyState = "OPEN"

\* the effect of page.tsx on mount and on every change of the watchlist,
\* the timeframes or the handlers
ConnectionEffect ==
    /\ Len(watchlist) > 0 /\ Len(enabledTimeframes) > 0
    /\ IF isConnected(deltaWebSocket)
       THEN /\ deltaWebSocket' = [deltaWebSocket EXCEPT !.onCandleCallback = TRUE,
                                                        !.onStatusCallback = TRUE,
                                                        !.subscribedChannels = TRUE]
       ELSE IF ~wsInitialized
       THEN /\ Len(deltaWebSocket.sockets) < MaxSockets
            /\ deltaWebSocket' = connect(deltaWebSocket, TRUE, TRUE)
       ELSE UNCHANGED deltaWebSocket
    /\ UNCHANGED <<wsConnected, wsInitialized, storeVars, pageVars, legacyVars, historyVars, newCandleReports>>

\* ws.onopen of the i-th WebSocket; resolve() resumes connectWebSocket of the
\* page when the page awaits it
SocketOpens(i) ==
    /\ i \in 1..Len(deltaWebSocket.sockets)
    /\ deltaWebSocket.sockets[i].readyState = "CONNECTING"
    /\ deltaWebSocket' =
          [deltaWebSocket EXCEPT !.sockets[i].readyState = "OPEN",
                                 !.reconnectAttempts = 0,
                                 !.subscribedChannels =
                                     @ \/ deltaWebSocket.sockets[i].awaited]
    /\ wsConnected' = IF deltaWebSocket.onStatusCallback THEN TRUE ELSE wsConnected
    /\ wsInitialized' = (wsInitialized \/ deltaWebSocket.sockets[i].awaited)
    /\ UNCHANGED <<storeVars, pageVars, legacyVars, historyVars, newCandleReports>>

attemptReconnect_noLimit(dws) ==
    [dws EXCEPT !.reconnectAttempts = @ + 1, !.timers = @ + 1]

\* attemptReconnect: a timeout is set unless the attempts are used up
attemptReconnect(dws) ==
    IF dws.reconnectAttempts >= maxReconnectAttempts
    THEN dws
    ELSE [dws EXCEPT !.reconnectAttempts = @ + 1, !.timers = @ + 1]

\* ws.onclose of the i-th WebSocket: the connection dropped, could not be
\* established, or was closed by disconnect()
SocketCloses(i) ==
    /\ i \in 1..Len(deltaWebSocket.sockets)
    /\ deltaWebSocket.sockets[i].readyState \in {"CONNECTING", "OPEN", "CLOSING"}
    /\ deltaWebSocket' =
          LET closed == [deltaWebSocket EXCEPT !.sockets[i].readyState = "CLOSED"]
          IN IF closed.isIntentionallyClosed THEN closed ELSE attemptReconnect(closed)
    /\ wsConnected' = IF deltaWebSocket.onStatusCallback THEN FALSE ELSE wsConnected
    /\ UNCHANGED <<wsInitialized, storeVars, pageVars, legacyVars, historyVars, newCandleReports>>

ReconnectTimerFiresWithin_unconditional(limit) ==
    /\ deltaWebSocket.timers > 0
    /\ Len(deltaWebSocket.sockets) < limit
    /\ deltaWebSocket' = connect([deltaWebSocket EXCEPT !.timers = @ - 1], FALSE, FALSE)
    /\ UNCHANGED <<wsConnected, wsInitialized, storeVars, pageVars, legacyVars, historyVars, newCandleReports>>

\* the timeout of attemptReconnect fires: this.connect(this.onCandleCallback);
\* limit is the number of WebSockets the behaviour may create
ReconnectTimerFiresWithin(limit) ==
    /\ deltaWebSocket.timers > 0
    /\ LET fired == [deltaWebSocket EXCEPT !.timers = @ - 1]
       IN IF ~fired.isIntentionallyClosed /\ fired.onCandleCallback
          THEN /\ Len(fired.sockets) < limit
               /\ deltaWebSocket' = connect(fired, FALSE, FALSE)
          ELSE deltaWebSocket' = fired
    /\ UNCHANGED <<wsConnected, wsInitialized, storeVars, pageVars, legacyVars, historyVars, newCandleReports>>

ReconnectTimerFires == ReconnectTimerFiresWithin(MaxSockets)

\* the page is unmounted: deltaWebSocket.disconnect(); a later mount starts
\* with the initial state of the component
Disconnect ==
    /\ wsInitialized
    /\ deltaWebSocket' =
          [deltaWebSocket EXCEPT
             !.isIntentionallyClosed = TRUE,
             !.subscribedChannels = FALSE,
             !.sockets = IF deltaWebSocket.ws = 0 THEN @
                         ELSE [@ EXCEPT ![deltaWebSocket.ws].readyState =
                                 IF @ = "CLOSED" THEN "CLOSED" ELSE "CLOSING"],
             !.ws = 0]
    /\ wsConnected' = FALSE
    /\ wsInitialized' = FALSE
    /\ UNCHANGED <<storeVars, pageVars, legacyVars, historyVars, newCandleReports>>

SocketInit ==
    /\ StoreInit
    /\ watchlist = <<"BTCUSD">>
    /\ enabledTimeframes = <<"1m">>
    /\ screenerData = EmptyMap
    /\ alerts = <<>>
    /\ previousData = EmptyMap
    /\ isInitialLoad = TRUE
    /\ fetches = <<>>
    /\ lastEvent = Event("mount", "", "", NoCandle, FALSE, NoAnalysis, NoCheck)
    /\ LegacyIdle /\ HistoryInit /\ SocketIdle

SocketNext ==
    \/ ConnectionEffect
    \/ \E i \in 1..MaxSockets : SocketOpens(i)
    \/ \E i \in 1..MaxSockets : SocketCloses(i)
    \/ ReconnectTimerFires
    \/ Disconnect

SpecSocket == SocketInit /\ [][SocketNext]_vars

----------------------------------------------------------------------------
(* The reconnect loop on its own: the page connects once and the exchange   *)
(* refuses or drops connections as often as it likes.                       *)

\* how many WebSockets the client creates when connections keep failing
MaxRetrySockets == 12

RetryNext ==
    \/ /\ Len(deltaWebSocket.sockets) = 0
       /\ ConnectionEffect
    \/ \E i \in 1..MaxRetrySockets : SocketOpens(i)
    \/ \E i \in 1..MaxRetrySockets : SocketCloses(i)
    \/ ReconnectTimerFiresWithin(MaxRetrySockets)

SpecRetry == SocketInit /\ [][RetryNext]_vars

----------------------------------------------------------------------------
(* Streaming messages: ws.onmessage hands the text to handleMessage, which  *)
(* builds a candle and calls the page's handleCandleUpdate.                 *)

MICROSECONDS == 1000000

\* a parsed candlestick message; type is the text before and after the
\* underscore of 'candlestick_1m', an absent symbol is the empty text
Message(type, symbol, time, price, volume) ==
    [type |-> type, symbol |-> symbol, resolution |-> Missing,
     candle_start_time |-> time,
     open |-> price, high |-> price, low |-> price, close |-> price, volume |-> volume]

\* what the exchange sends for a bar: a traded bar, a bar that opened without
\* a trade yet (volume 0), a bar with no volume field, one with no prices
CandleMessages ==
    { Message(<<"candlestick_", "1m">>, "BTCUSD", time, price, volume) :
        time \in {t * MICROSECONDS + offset : t \in TickTimes, offset \in {0, 250000}},
        price \in {2, 5, 8, Missing}, volume \in {3, 1, 0, Missing} }

Messages ==
    CandleMessages \cup
    { Message(<<"subscriptions", "">>, "", Missing, Missing, Missing),
      Message(<<"candlestick_", "1m">>, "", EndBar * MICROSECONDS, 2, 3),
      Message(<<"candlestick_", "1m">>, "BTCUSD", Missing, 2, 3),
      Message(<<"candlestick_", "5m">>, "BTCUSD", EndBar * MICROSECONDS, 2, 3),
      Message(<<"candlestick_", "1m">>, "ETHUSD", EndBar * MICROSECONDS, 2, 3) }

\* x || 0
OrZero(x) == IF x = Missing THEN 0 ELSE x

\* the candle handleMessage builds from a candlestick message
MessageCandle(message) ==
    [time |-> OrZero(message.candle_start_time) \div MICROSECONDS,
     open |-> OrZero(message.open), high |-> OrZero(message.high),
     low |-> OrZero(message.low), close |-> OrZero(message.close),
     volume |-> OrZero(message.volume)]

\* message.resolution || message.type.replace('candlestick_', '')
MessageTimeframe(message) ==
    IF message.resolution # Missing THEN message.resolution ELSE message.type[2]

\* handleMessage passes the candle on when a callback is registered and the
\* candle has a time
IsDelivered(message) ==
    /\ message.type[1] = "candlestick_" /\ message.symbol # ""
    /\ deltaWebSocket.onCandleCallback /\ MessageCandle(message).time > 0

\* ws.onmessage on the open connection
HandleMessage(message) ==
    /\ isConnected(deltaWebSocket)
    /\ IsDelivered(message)
    /\ HandleCandleUpdate(message.symbol, MessageTimeframe(message), MessageCandle(message))

\* the page is mounted, its first fetchData has stored a history for the key
\* and the streaming connection is open
StreamInit ==
    /\ \E b \in ScreenerBatches :
          /\ candleStore = IF Len(Fetched(b)) > 0
                           THEN storeCandles(EmptyMap, "BTCUSD", "1m", Fetched(b))
                           ELSE EmptyMap
          /\ lastCall = Call("fetchAndStoreCandles", "BTCUSD", "1m", NoCandle, b, FALSE)
    /\ watchlist = <<"BTCUSD">>
    /\ enabledTimeframes = <<"1m">>
    /\ screenerData = EmptyMap
    /\ alerts = <<>>
    /\ previousData = EmptyMap
    /\ isInitialLoad = TRUE
    /\ fetches = <<>>
    /\ lastEvent = Event("mount", "", "", NoCandle, FALSE, NoAnalysis, NoCheck)
    /\ LegacyIdle /\ HistoryInit
    /\ deltaWebSocket = [connect(NewDeltaWebSocket, TRUE, TRUE) EXCEPT
                            !.sockets[1].readyState = "OPEN",
                            !.subscribedChannels = TRUE]
    /\ wsConnected = TRUE
    /\ wsInitialized = TRUE

StreamNext == \E message \in Messages : HandleMessage(message)

SpecStream == StreamInit /\ [][StreamNext]_vars

----------------------------------------------------------------------------
(* One key under streaming ticks and historical refreshes in any order:     *)
(* every tick is an updateCandle, every refresh a fetchAndStoreCandles      *)
(* whose answer replaces the stored window.                                 *)

\* how many ticks arrive for the key
MaxStreamed == 2

\* how many refreshes answer for the key
MaxReloads == 1

\* what a refresh may answer
ReloadBatches ==
    {<<"asc", 0>>, <<"desc", 2>>, <<"dup", 3>>, <<"bad", 3>>, <<"asc", MAX_CANDLES>>}

ReportsOf(reports, key) == IF key \in DOMAIN reports THEN reports[key] ELSE 0

ReloadInit ==
    /\ \E b \in ReloadBatches \ {<<"asc", 0>>} :
          /\ candleStore = storeCandles(EmptyMap, "BTCUSD", "1m", Fetched(b))
          /\ lastCall = Call("fetchAndStoreCandles", "BTCUSD", "1m", NoCandle, b, FALSE)
    /\ PageIdle /\ LegacyIdle /\ HistoryInit /\ SocketIdle

\* a streaming tick for the key: updateCandle(symbol, timeframe, candle)
TickArrives(c) ==
    /\ count.ticks < MaxStreamed
    /\ count' = [count EXCEPT !.ticks = @ + 1]
    /\ LET r == updateCandle(candleStore, "BTCUSD", "1m", c)
           key == <<"BTCUSD", "1m", c.time>>
       IN /\ candleStore' = r.store
          /\ lastCall' = Call("updateCandle", "BTCUSD", "1m", c, NoBatch, r.ret)
          /\ newCandleReports' =
                IF r.ret
                THEN MapSet(newCandleReports, key, ReportsOf(newCandleReports, key) + 1)
                ELSE newCandleReports
    /\ UNCHANGED <<pageVars, legacyVars, computedKeys, socketVars>>

\* the answer of a history request for the key arrives:
\* fetchAndStoreCandles stores it unless it is empty
ReloadArrives(b) ==
    /\ count.refreshes < MaxReloads
    /\ count' = [count EXCEPT !.refreshes = @ + 1]
    /\ candleStore' = IF Len(Fetched(b)) > 0
                      THEN storeCandles(candleStore, "BTCUSD", "1m", Fetched(b))
                      ELSE candleStore
    /\ lastCall' = Call("fetchAndStoreCandles", "BTCUSD", "1m", NoCandle, b, FALSE)
    /\ UNCHANGED <<pageVars, legacyVars, computedKeys, socketVars, newCandleReports>>

ReloadNext ==
    \/ \E c \in Ticks : TickArrives(c)
    \/ \E b \in ReloadBatches : ReloadArrives(b)

SpecReload == ReloadInit /\ [][ReloadNext]_vars

----------------------------------------------------------------------------
(* One key fed bar by bar: a backfill of the first candles of a history,    *)
(* then one streaming tick after the other, each applied by updateCandle    *)
(* and followed by analyzeFromStore.  The history is 25 flat candles        *)
(* closing at 100 and then 20 bars whose closes alternate between 100.01    *)
(* and 99.99; prices are in hundredths.  A bar after the flat ones first    *)
(* arrives in progress, closing at 100, and a later tick carries its close. *)

FLAT_CANDLES == 25

OSCILLATING_BARS == 20

FlatClose == 10000

ScenarioClose(i) ==
    IF i <= FLAT_CANDLES THEN FlatClose
    ELSE IF (i - FLAT_CANDLES) % 2 = 1 THEN FlatClose + 1 ELSE FlatClose - 1

ScenarioCandles(n) == [i \in 1..n |-> Candle(i, ScenarioClose(i), 1)]

\* the candles stored for the key of the scenario
ScenarioWindow ==
    IF HasWindow(candleStore, "BTCUSD", "1m") THEN candleStore["BTCUSD"]["1m"] ELSE <<>>

\* updateCandle and analyzeFromStore on a tick, as handleCandleUpdate makes them
ApplyTick(candle) ==
    LET r == updateCandle(candleStore, "BTCUSD", "1m", candle)
    IN /\ candleStore' = r.store
       /\ lastCall' = AnalysisCall("analyzeFromStore", [candle |-> candle, isNewCandle |-> r.ret],
                                   TRUE, analyzeFromStore(r.store, "BTCUSD", "1m"))

ScenarioInit ==
    /\ candleStore = EmptyMap
    /\ lastCall = AnalysisCall("init", [candle |-> NoCandle, isNewCandle |-> FALSE], FALSE,
                               NoAnalysis)
    /\ PageIdle /\ LegacyIdle /\ HistoryInit /\ SocketIdle

\* the backfill returns the first k flat candles
ScenarioBackfill(k) ==
    /\ ~HasWindow(candleStore, "BTCUSD", "1m")
    /\ LET candles == fetchCandles(ScenarioCandles(k))
       IN /\ candleStore' = storeCandles(candleStore, "BTCUSD", "1m", candles)
          /\ lastCall' = AnalysisCall("initializeCandleStore",
                                      [candle |-> NoCandle, isNewCandle |-> FALSE], TRUE,
                                      analyzeVolatility(candles))
    /\ UNCHANGED <<pageVars, legacyVars, historyVars, socketVars, newCandleReports>>

\* the first tick of the next bar
BarOpens ==
    /\ Len(ScenarioWindow) \in 1..(FLAT_CANDLES + OSCILLATING_BARS - 1)
    /\ ScenarioWindow[Len(ScenarioWindow)].close = ScenarioClose(Len(ScenarioWindow))
    /\ ApplyTick(Candle(Len(ScenarioWindow) + 1, FlatClose, 1))
    /\ UNCHANGED <<pageVars, legacyVars, historyVars, socketVars, newCandleReports>>

\* the tick that carries the close of the bar in progress
BarCloses ==
    /\ Len(ScenarioWindow) >= 1
    /\ ScenarioWindow[Len(ScenarioWindow)].close # ScenarioClose(Len(ScenarioWindow))
    /\ ApplyTick(Candle(Len(ScenarioWindow), ScenarioClose(Len(ScenarioWindow)), 1))
    /\ UNCHANGED <<pageVars, legacyVars, historyVars, socketVars, newCandleReports>>

\* a tick that repeats the last one
TickRepeats ==
    /\ Len(ScenarioWindow) >= 1
    /\ ApplyTick(ScenarioWindow[Len(ScenarioWindow)])
    /\ UNCHANGED <<pageVars, legacyVars, historyVars, socketVars, newCandleReports>>

ScenarioNext ==
    \/ \E k \in 1..FLAT_CANDLES : ScenarioBackfill(k)
    \/ BarOpens
    \/ BarCloses
    \/ TickRepeats

\* the exchange keeps delivering the bars of the history
SpecScenario ==
    ScenarioInit /\ [][ScenarioNext]_vars /\ WF_vars(BarOpens) /\ WF_vars(BarCloses)
        /\ WF_vars(\E k \in 1..FLAT_CANDLES : ScenarioBackfill(k))

----------------------------------------------------------------------------
(* One key after its backfill: every step is the first tick of a new bar,   *)
(* applied by updateCandle and followed by analyzeFromStore.                *)

\* how many bars arrive after the backfill
MaxBars == 3

\* the closes of the bars that arrive
NewBarCloses == {2, 5, 8}

BarsInit ==
    /\ \E b \in BarHistories :
          /\ candleStore = storeCandles(EmptyMap, "BTCUSD", "1m", Fetched(b))
          /\ lastCall = AnalysisCall("initializeCandleStore",
                                     [candle |-> NoCandle, isNewCandle |-> FALSE], TRUE,
                                     analyzeVolatility(Fetched(b)))
    /\ PageIdle /\ LegacyIdle /\ HistoryInit /\ SocketIdle

BarArrives(close) ==
    /\ count.ticks < MaxBars
    /\ ApplyTick(Candle(ScenarioWindow[Len(ScenarioWindow)].time + 1, close, 1))
    /\ count' = [count EXCEPT !.ticks = @ + 1]
    /\ UNCHANGED <<pageVars, legacyVars, computedKeys, socketVars, newCandleReports>>

BarsNext == \E close \in NewBarCloses : BarArrives(close)

SpecBars == BarsInit /\ [][BarsNext]_vars

----------------------------------------------------------------------------
(* Properties of the candle store (checked under Spec) *)

\* the step just taken is the call updateCandle(symbol, timeframe, c)
IsUpdate(call) == call.op = "updateCandle"

\* a non-empty window is stored for the key
HasCandles(store, symbol, timeframe) ==
    HasWindow(store, symbol, timeframe) /\ Len(store[symbol][timeframe]) > 0

LastTime(store, symbol, timeframe) ==
    store[symbol][timeframe][Len(store[symbol][timeframe])].time

\* every window other than the one of (symbol, timeframe) is the same in both stores
OtherWindowsSame(old, new, symbol, timeframe) ==
    /\ DOMAIN new = DOMAIN old
    /\ \A s \in DOMAIN old :
        /\ DOMAIN new[s] = DOMAIN old[s]
        /\ \A tf \in DOMAIN old[s] :
            (s # symbol \/ tf # timeframe) => new[s][tf] = old[s][tf]

\* C1: updateCandle returns true exactly when a non-empty window is stored
\* for the key and the tick's time is strictly greater than the time of the
\* window's last candle; in every other case it returns false.
C1_ReturnsTrueIffNewer ==
    [][IsUpdate(lastCall') =>
        LET s == lastCall'.symbol
            tf == lastCall'.timeframe
            c == lastCall'.candle
        IN lastCall'.ret =
             (/\ HasCandles(candleStore, s, tf)
              /\ c.time > LastTime(candleStore, s, tf))]_vars

\* an updateCandle call has just returned true
C1_Witness == IsUpdate(lastCall) /\ lastCall.ret = TRUE

\* C2: a tick newer than the last stored candle is appended at the end, and
\* the first candle is removed exactly when the old window already held
\* MAX_CANDLES candles; all other candles keep their order and content.
C2_AppendEvictsOldest ==
    [][(/\ IsUpdate(lastCall')
        /\ HasCandles(candleStore, lastCall'.symbol, lastCall'.timeframe)
        /\ lastCall'.candle.time
              > LastTime(candleStore, lastCall'.symbol, lastCall'.timeframe))
       =>
        LET s == lastCall'.symbol
            tf == lastCall'.timeframe
            old == candleStore[s][tf]
        IN /\ HasWindow(candleStore', s, tf)
           /\ candleStore'[s][tf] =
                 IF Len(old) = MAX_CANDLES
                 THEN Tail(old) \o <<lastCall'.candle>>
                 ELSE old \o <<lastCall'.candle>>]_vars

\* a tick was appended to a full window and the oldest candle was evicted
C2_Witness ==
    /\ IsUpdate(lastCall) /\ lastCall.ret = TRUE
    /\ HasWindow(candleStore, lastCall.symbol, lastCall.timeframe)
    /\ LET w == candleStore[lastCall.symbol][lastCall.timeframe]
       IN /\ Len(w) = MAX_CANDLES
          /\ w[Len(w)] = lastCall.candle
          /\ w[1].time = lastCall.candle.time - MAX_CANDLES + 1

\* C3: a tick whose time equals the last stored candle's time replaces only
\* the last candle of that key's window: the length and every earlier candle
\* are unchanged, the other windows are unchanged, and the call reports
\* 'not new'.
C3_EqualTimeReplacesLast ==
    [][(/\ IsUpdate(lastCall')
        /\ HasCandles(candleStore, lastCall'.symbol, lastCall'.timeframe)
        /\ lastCall'.candle.time
              = LastTime(candleStore, lastCall'.symbol, lastCall'.timeframe))
       =>
        LET s == lastCall'.symbol
            tf == lastCall'.timeframe
            old == candleStore[s][tf]
        IN /\ lastCall'.ret = FALSE
           /\ OtherWindowsSame(candleStore, candleStore', s, tf)
           /\ Len(candleStore'[s][tf]) = Len(old)
           /\ \A i \in 1..(Len(old) - 1) : candleStore'[s][tf][i] = old[i]
           /\ candleStore'[s][tf][Len(old)] = lastCall'.candle]_vars

\* an equal-time tick with other content has replaced the last candle of a
\* window while another key holds a window
C3_Witness ==
    /\ IsUpdate(lastCall) /\ lastCall.ret = FALSE
    /\ HasCandles(candleStore, lastCall.symbol, lastCall.timeframe)
    /\ LET w == candleStore[lastCall.symbol][lastCall.timeframe]
       IN /\ Len(w) >= 2
          /\ w[Len(w)] = lastCall.candle
          /\ w[Len(w)].close # w[Len(w) - 1].close
    /\ \E s \in DOMAIN candleStore : s # lastCall.symbol

\* C4: a tick older than the last stored candle is discarded: every window
\* is left exactly as it was and the call reports 'not new'.
C4_StaleTickDiscarded ==
    [][(/\ IsUpdate(lastCall')
        /\ HasCandles(candleStore, lastCall'.symbol, lastCall'.timeframe)
        /\ lastCall'.candle.time
              < LastTime(candleStore, lastCall'.symbol, lastCall'.timeframe))
       => (candleStore' = candleStore /\ lastCall'.ret = FALSE)]_vars

\* a stale tick has just been applied to a key that holds a window
C4_Witness ==
    /\ IsUpdate(lastCall)
    /\ HasCandles(candleStore, lastCall.symbol, lastCall.timeframe)
    /\ lastCall.candle.time < LastTime(candleStore, lastCall.symbol, lastCall.timeframe)

\* C5: every stored window holds at most MAX_CANDLES candles.
C5_WindowAtMostMaxCandles ==
    \A s \in DOMAIN candleStore : \A tf \in DOMAIN candleStore[s] :
        Len(candleStore[s][tf]) <= MAX_CANDLES

\* a batch of more than MAX_CANDLES candles has just been stored
C5_Witness ==
    /\ lastCall.op \in {"storeCandles", "fetchAndStoreCandles"}
    /\ Len(Fetched(lastCall.batch)) > MAX_CANDLES
    /\ HasWindow(candleStore, lastCall.symbol, lastCall.timeframe)
    /\ Len(candleStore[lastCall.symbol][lastCall.timeframe]) = MAX_CANDLES

\* C6: the candles of every stored window are strictly ascending by time.
C6_StrictlyAscending ==
    \A s \in DOMAIN candleStore : \A tf \in DOMAIN candleStore[s] :
        LET w == candleStore[s][tf]
        IN \A i \in 1..(Len(w) - 1) : w[i].time < w[i + 1].time

\* C7: applying the same tick a second time leaves the window as the first
\* application left it, and the second application reports 'not new'.
C7_DuplicateTickIdempotent ==
    IsUpdate(lastCall) =>
        LET again == updateCandle(candleStore, lastCall.symbol,
                                  lastCall.timeframe, lastCall.candle)
        IN again.store = candleStore /\ again.ret = FALSE

\* the first delivery of the tick was appended to a window below capacity
C7_Witness ==
    /\ IsUpdate(lastCall) /\ lastCall.ret = TRUE
    /\ Len(candleStore[lastCall.symbol][lastCall.timeframe]) < MAX_CANDLES

----------------------------------------------------------------------------
(* Properties of the page (checked under SpecPage) *)

\* the step just taken is handleCandleUpdate(symbol, timeframe, candle)
IsTick(event) == event.handler = "handleCandleUpdate"

\* updateCandle on this store takes the append branch for the tick
AppendBranch(store, symbol, timeframe, c) ==
    /\ HasCandles(store, symbol, timeframe)
    /\ c.time > LastTime(store, symbol, timeframe)

\* C8: on the streaming path checkForAlerts runs for a tick only when
\* updateCandle took the append branch; a tick that replaces the last candle,
\* a stale tick or a tick for a key without a window runs no alert check:
\* it emits no alert and leaves the baseline state untouched.
C8_AlertCheckOnlyOnAppend ==
    [][(/\ IsTick(lastEvent')
        /\ ~AppendBranch(candleStore, lastEvent'.symbol, lastEvent'.timeframe,
                         lastEvent'.candle))
       =>
        /\ ~lastEvent'.checked
        /\ alerts' = alerts
        /\ previousData' = previousData
        /\ isInitialLoad' = isInitialLoad]_vars

\* after the baseline, a tick has replaced the last candle of a window; the
\* snapshot it gave differs from the stored previous one, and no check ran
C8_Witness ==
    /\ IsTick(lastEvent) /\ ~lastEvent.checked /\ ~lastEvent.isNewCandle
    /\ ~isInitialLoad
    /\ HasCandles(candleStore, lastEvent.symbol, lastEvent.timeframe)
    /\ candleStore[lastEvent.symbol][lastEvent.timeframe]
          [Len(candleStore[lastEvent.symbol][lastEvent.timeframe])] = lastEvent.candle
    /\ lastEvent.analysis.status = "OK"
    /\ HasSnapshot(previousData, lastEvent.symbol, lastEvent.timeframe)
    /\ previousData[lastEvent.symbol][lastEvent.timeframe].status = "OK"
    /\ previousData[lastEvent.symbol][lastEvent.timeframe] # lastEvent.analysis

----------------------------------------------------------------------------
(* Properties of the legacy App (checked under SpecLegacy) *)

\* C9: the first snapshot ever computed for a key is stored as the baseline
\* and emits no alert, whatever its signal and regime.
C9_FirstSnapshotIsSilentBaseline ==
    [][lastRefresh'.step = "done" =>
        \A s \in DOMAIN lastRefresh'.data : \A tf \in DOMAIN lastRefresh'.data[s] :
            <<s, tf>> \notin computedKeys =>
                /\ HasSnapshot(app'.previousStates, s, tf)
                /\ app'.previousStates[s][tf] = lastRefresh'.data[s][tf]
                /\ \A i \in 1..Len(lastRefresh'.newAlerts) :
                      ~(/\ lastRefresh'.newAlerts[i].symbol = s
                        /\ lastRefresh'.newAlerts[i].timeframe = tf)]_vars

----------------------------------------------------------------------------
(* Properties of the page, continued (checked under SpecPage) *)

\* C10: after the baseline, every computation handed to the alert check (by
\* a full refresh or by a streaming tick) replaces the stored previous
\* snapshot of its key: once the update is processed, the stored previous
\* snapshot of the key equals the snapshot just computed.
C10_ComparedThenReplaces ==
    [][(lastEvent'.checked /\ ~lastEvent'.baseline) =>
        IF IsTick(lastEvent')
        THEN /\ HasSnapshot(previousData', lastEvent'.symbol, lastEvent'.timeframe)
             /\ previousData'[lastEvent'.symbol][lastEvent'.timeframe] = lastEvent'.analysis
        ELSE previousData' = screenerData']_vars

----------------------------------------------------------------------------
(* Properties of the alert engine (checked under SpecAlerts) *)

\* the step just taken ran the comparison loop of checkForAlerts
Compares(event) == event.checked /\ ~event.baseline

\* the keys the step handed to checkForAlerts
UpdateKeys(event, data) ==
    IF IsTick(event)
    THEN {<<event.symbol, event.timeframe>>}
    ELSE UNION {{<<s, tf>> : tf \in DOMAIN data[s]} : s \in DOMAIN data}

\* the snapshot the step handed to checkForAlerts for a key
CurrentOf(event, data, key) ==
    IF IsTick(event) THEN event.analysis ELSE data[key[1]][key[2]]

\* the alerts of a sequence that carry the key
AlertsFor(newAlerts, key) ==
    LET forKey(a) == a.symbol = key[1] /\ a.timeframe = key[2]
    IN SelectSeq(newAlerts, forKey)

\* both snapshots of a key are present with status OK
BothOK(event, data, previous, key) ==
    /\ CurrentOf(event, data, key).status = "OK"
    /\ HasSnapshot(previous, key[1], key[2])
    /\ previous[key[1]][key[2]].status = "OK"

BreakoutApplies(current, previous) ==
    current.signal \in {"BULLISH_BREAKOUT", "BEARISH_BREAKOUT"}
    /\ current.signal # previous.signal

SqueezeEntryApplies(current, previous) ==
    /\ current.squeezeState \in {"SQUEEZE", "TIGHT_SQUEEZE"}
    /\ previous.squeezeState \in {"NORMAL", "EXPANSION"}

TightSqueezeApplies(current, previous) ==
    current.squeezeState = "TIGHT_SQUEEZE" /\ previous.squeezeState = "SQUEEZE"

\* C11: one update emits at most one alert for each (symbol, timeframe)
\* pair; the kinds are tried in the order breakout, squeeze_entry,
\* tight_squeeze: an alert of a later kind is emitted only when no earlier
\* kind applies.
C11_AtMostOneAlertPerPair ==
    [][Compares(lastEvent') =>
        \A key \in UpdateKeys(lastEvent', screenerData') :
            LET emitted == AlertsFor(lastEvent'.newAlerts, key)
                current == CurrentOf(lastEvent', screenerData', key)
                previous == previousData[key[1]][key[2]]
            IN /\ Len(emitted) <= 1
               /\ Len(emitted) = 1 =>
                    /\ BothOK(lastEvent', screenerData', previousData, key)
                    /\ emitted[1].type = "squeeze_entry" =>
                          ~BreakoutApplies(current, previous)
                    /\ emitted[1].type = "tight_squeeze" =>
                          /\ ~BreakoutApplies(current, previous)
                          /\ ~SqueezeEntryApplies(current, previous)]_vars

\* a full update has emitted one alert for each of the two pairs: a breakout
\* alert for a key whose snapshot is in a squeeze, and a tight_squeeze alert
C11_Witness ==
    /\ Compares(lastEvent) /\ ~IsTick(lastEvent)
    /\ Len(lastEvent.newAlerts) = 2
    /\ \A key \in UpdateKeys(lastEvent, screenerData) :
          Len(AlertsFor(lastEvent.newAlerts, key)) = 1
    /\ \E key \in UpdateKeys(lastEvent, screenerData) :
          /\ AlertsFor(lastEvent.newAlerts, key)[1].type = "breakout"
          /\ IsSqueeze(CurrentOf(lastEvent, screenerData, key).squeezeState)
    /\ \E key \in UpdateKeys(lastEvent, screenerData) :
          AlertsFor(lastEvent.newAlerts, key)[1].type = "tight_squeeze"

\* the alerts of a kind among those emitted for a key
OfType(emitted, type) == LET isType(a) == a.type = type IN SelectSeq(emitted, isType)

\* C12: when the current and the stored previous snapshot of a pair both
\* have status OK, a breakout alert is emitted for the pair exactly when the
\* current signal is non-null and differs from the previous signal; when
\* either snapshot is missing or not OK, no alert of any kind is emitted
\* for the pair.
C12_BreakoutIffSignalChanged ==
    [][lastEvent'.checked =>
        \A key \in UpdateKeys(lastEvent', screenerData') :
            LET emitted == AlertsFor(lastEvent'.newAlerts, key)
                current == CurrentOf(lastEvent', screenerData', key)
            IN IF BothOK(lastEvent', screenerData', previousData, key)
               THEN (Len(OfType(emitted, "breakout")) > 0)
                      = BreakoutApplies(current, previousData[key[1]][key[2]])
               ELSE Len(emitted) = 0]_vars

\* a full update after the baseline has emitted a breakout alert for one
\* pair and nothing for the other pair, whose snapshot is not OK
C12_Witness ==
    /\ Compares(lastEvent) /\ ~IsTick(lastEvent)
    /\ Len(lastEvent.newAlerts) = 1
    /\ lastEvent.newAlerts[1].type = "breakout"
    /\ lastEvent.newAlerts[1].signal = "BULLISH_BREAKOUT"
    /\ \E key \in UpdateKeys(lastEvent, screenerData) :
          /\ CurrentOf(lastEvent, screenerData, key).status = "INSUFFICIENT_DATA"
          /\ Len(AlertsFor(lastEvent.newAlerts, key)) = 0

\* C14: for a pair with both snapshots OK to which neither the breakout nor
\* the squeeze_entry kind applies, a tight_squeeze alert is emitted exactly
\* when the current regime is TIGHT_SQUEEZE and the previous regime is SQUEEZE.
C14_TightSqueezeIffFromSqueeze ==
    [][lastEvent'.checked =>
        \A key \in UpdateKeys(lastEvent', screenerData') :
            LET emitted == AlertsFor(lastEvent'.newAlerts, key)
                current == CurrentOf(lastEvent', screenerData', key)
                previous == previousData[key[1]][key[2]]
            IN (/\ BothOK(lastEvent', screenerData', previousData, key)
                /\ ~BreakoutApplies(current, previous)
                /\ ~SqueezeEntryApplies(current, previous))
               => (Len(OfType(emitted, "tight_squeeze")) > 0)
                     = TightSqueezeApplies(current, previous)]_vars

\* a streaming update has emitted a tight_squeeze alert for a snapshot that
\* carries a breakout signal (the same signal as the stored previous one)
C14_Witness ==
    /\ Compares(lastEvent) /\ IsTick(lastEvent)
    /\ Len(lastEvent.newAlerts) = 1
    /\ lastEvent.newAlerts[1].type = "tight_squeeze"
    /\ lastEvent.analysis.signal = "BULLISH_BREAKOUT"
    /\ lastEvent.analysis.squeezeState = "TIGHT_SQUEEZE"

\* the log after new alerts were put in front of it and the cap applied
Prepended(new, log, newAlerts) ==
    /\ Len(new) = Min(MAX_ALERTS, Len(newAlerts) + Len(log))
    /\ \A i \in 1..Len(new) :
          new[i] = IF i <= Len(newAlerts) THEN newAlerts[i] ELSE log[i - Len(newAlerts)]

\* C15: neither the alert log of the page nor the stored log of the legacy
\* front end ever holds more than 50 alerts; the alerts of an update are put
\* in front of the log in the order they were found, the earlier alerts
\* follow in their order, and what exceeds 50 is cut from the end (the
\* oldest alerts).
C15_AlertLogCapped ==
    /\ [](Len(alerts) <= MAX_ALERTS /\ Len(storedAlerts) <= MAX_ALERTS)
    /\ [][/\ lastEvent'.checked => Prepended(alerts', alerts, lastEvent'.newAlerts)
          /\ lastRefresh'.step = "addAlert" =>
                Prepended(storedAlerts', storedAlerts, lastRefresh'.newAlerts)]_vars

\* a full update has put two alerts in front of a full log and the two
\* oldest alerts of the log were discarded; and a save has pushed the oldest
\* alert out of a full stored log
C15_Witness ==
    /\ Compares(lastEvent) /\ Len(lastEvent.newAlerts) = 2
    /\ Len(alerts) = MAX_ALERTS
    /\ alerts[1] = lastEvent.newAlerts[1] /\ alerts[2] = lastEvent.newAlerts[2]
    /\ alerts[3] = SavedLog(MAX_ALERTS)[1]
    /\ alerts[MAX_ALERTS] = SavedLog(MAX_ALERTS)[MAX_ALERTS - 2]
    /\ Len(storedAlerts) = MAX_ALERTS
    /\ storedAlerts[1] \in LegacyAlerts
    /\ storedAlerts[MAX_ALERTS] = SavedLog(MAX_ALERTS)[MAX_ALERTS - 1]

\* C16: an update whose snapshot for a key equals the stored previous
\* snapshot of the key emits no alert for the key.
C16_IdenticalSnapshotSilent ==
    [][lastEvent'.checked =>
        \A key \in UpdateKeys(lastEvent', screenerData') :
            (/\ HasSnapshot(previousData, key[1], key[2])
             /\ CurrentOf(lastEvent', screenerData', key) = previousData[key[1]][key[2]])
            => Len(AlertsFor(lastEvent'.newAlerts, key)) = 0]_vars

\* a streaming update was compared with the stored previous snapshot and
\* merged into it without an alert, and its snapshot is a breakout in a
\* tight squeeze: of the engine snapshots only that snapshot itself, stored
\* as previous, leaves it without an alert
C16_Witness ==
    /\ Compares(lastEvent) /\ IsTick(lastEvent)
    /\ Len(lastEvent.newAlerts) = 0
    /\ lastEvent.analysis.status = "OK"
    /\ lastEvent.analysis.signal = "BULLISH_BREAKOUT"
    /\ lastEvent.analysis.squeezeState = "TIGHT_SQUEEZE"
    /\ HasSnapshot(previousData, lastEvent.symbol, lastEvent.timeframe)
    /\ previousData[lastEvent.symbol][lastEvent.timeframe] = lastEvent.analysis

----------------------------------------------------------------------------
(* Properties of the page, continued (checked under SpecPage) *)

\* C13: after the baseline, a key whose current snapshot is OK, carries no
\* signal and is in the regime SQUEEZE or TIGHT_SQUEEZE gets a squeeze_entry
\* alert when its previous regime is NORMAL or EXPANSION, and also when no
\* previous snapshot is stored for the key.
C13_SqueezeEntryAlsoWithoutPrevious ==
    [][Compares(lastEvent') =>
        \A key \in UpdateKeys(lastEvent', screenerData') :
            LET current == CurrentOf(lastEvent', screenerData', key)
                hasPrevious == HasSnapshot(previousData, key[1], key[2])
            IN (/\ current.status = "OK"
                /\ current.signal = NULL
                /\ current.squeezeState \in {"SQUEEZE", "TIGHT_SQUEEZE"}
                /\ \/ ~hasPrevious
                   \/ /\ previousData[key[1]][key[2]].status = "OK"
                      /\ previousData[key[1]][key[2]].squeezeState \in {"NORMAL", "EXPANSION"})
               => Len(OfType(AlertsFor(lastEvent'.newAlerts, key), "squeeze_entry")) = 1]_vars

----------------------------------------------------------------------------
(* Properties of the analysis (checked under SpecAnalysis) *)

\* the call of the step has returned
Returned(call, op) == call.op = op /\ call.done

\* the fields of a snapshot declared number | null in VolatilityAnalysis
NullableNumericFields ==
    {"price", "bbWidthPct", "bbWidthPercentile", "atrPct", "atrPercentile", "bbUpper",
     "bbLower", "bbMiddle", "bbPercentB", "volumeRatio", "timestamp"}

\* the fields of a snapshot that hold a number: squeezeBars is declared number
NumericFields == NullableNumericFields \cup {"squeezeBars"}

\* the window of the call is null or shorter than the minimum history
ShortWindow(call) == call.arg.isNull \/ Len(call.arg.candles) < 20

C18_EmptyFetchInsufficientData ==
    (/\ Returned(lastCall, "initializeCandleStore")
     /\ Len(Fetched(lastCall.arg.batch)) = 0)
    => lastCall.ret.status = "INSUFFICIENT_DATA"

\* a backfill whose request failed with an HTTP error has reported
\* INSUFFICIENT_DATA for a key of which the store holds a full window
C18_Witness ==
    /\ Returned(lastCall, "initializeCandleStore")
    /\ lastCall.arg.batch[1] = "http error"
    /\ HasWindow(candleStore, lastCall.arg.symbol, lastCall.arg.timeframe)
    /\ Len(candleStore[lastCall.arg.symbol][lastCall.arg.timeframe]) = LOOKBACK_PERIOD
    /\ lastCall.ret.status = "INSUFFICIENT_DATA"

\* the percentile p = pct[1] / pct[2] * 100 against a number
PctBelow(pct, t) == 100 * pct[1] < t * pct[2]
PctAbove(pct, t) == 100 * pct[1] > t * pct[2]
PctEquals(pct, t) == 100 * pct[1] = t * pct[2]

\* C19: detectSqueezeState maps null to N/A, a percentile p < 10 to
\* TIGHT_SQUEEZE, 10 <= p < 20 to SQUEEZE, p > 70 to EXPANSION and
\* 20 <= p <= 70 to NORMAL; the boundary values 10, 20 and 70 map to SQUEEZE,
\* NORMAL and NORMAL.
C19_ClassifyThresholds ==
    Returned(lastCall, "detectSqueezeState") =>
        LET p == lastCall.arg
            state == lastCall.ret
        IN IF p = <<NullNum, NullNum>>
           THEN state = "N/A"
           ELSE /\ PctBelow(p, 10) => state = "TIGHT_SQUEEZE"
                /\ (~PctBelow(p, 10) /\ PctBelow(p, 20)) => state = "SQUEEZE"
                /\ PctAbove(p, 70) => state = "EXPANSION"
                /\ (~PctBelow(p, 20) /\ ~PctAbove(p, 70)) => state = "NORMAL"
                /\ PctEquals(p, 10) => state = "SQUEEZE"
                /\ PctEquals(p, 20) => state = "NORMAL"
                /\ PctEquals(p, 70) => state = "NORMAL"

\* detectSqueezeState has returned NORMAL for the percentile 70
C19_Witness ==
    /\ Returned(lastCall, "detectSqueezeState")
    /\ lastCall.arg # <<NullNum, NullNum>>
    /\ PctEquals(lastCall.arg, 70)
    /\ lastCall.ret = "NORMAL"

\* some of the 10 bars immediately before the last bar was in a squeeze
SqueezeInLastTen(squeezeStates) ==
    \E k \in 1..10 :
        /\ Len(squeezeStates) - k >= 1
        /\ squeezeStates[Len(squeezeStates) - k] \in {"SQUEEZE", "TIGHT_SQUEEZE"}

\* the band values of the last two bars are not null
BandsDefined(stats) ==
    ~WidthIsNull(stats, Len(stats)) /\ ~WidthIsNull(stats, Len(stats) - 1)

\* cur.close > curUpper, prev.close <= prevUpper and a squeeze recently
BullishDue(closes, stats, squeezeStates) ==
    /\ BandsDefined(stats)
    /\ AboveUpper(closes[Len(closes)], stats, Len(closes))
    /\ ~AboveUpper(closes[Len(closes) - 1], stats, Len(closes) - 1)
    /\ SqueezeInLastTen(squeezeStates)

\* cur.close < curLower, prev.close >= prevLower and a squeeze recently
BearishDue(closes, stats, squeezeStates) ==
    /\ BandsDefined(stats)
    /\ BelowLower(closes[Len(closes)], stats, Len(closes))
    /\ ~BelowLower(closes[Len(closes) - 1], stats, Len(closes) - 1)
    /\ SqueezeInLastTen(squeezeStates)

\* the signal is the one the conditions on the candles ask for
SignalAsDue(candles, signal) ==
    LET closes == Closes(candles)
        states == SqueezeStates(BandStats(closes))
    IN \A stats \in {BandStats(closes)} :
          /\ signal = "BULLISH_BREAKOUT" <=> BullishDue(closes, stats, states)
          /\ signal = "BEARISH_BREAKOUT" <=> BearishDue(closes, stats, states)
          /\ signal \in {"BULLISH_BREAKOUT", "BEARISH_BREAKOUT", NULL}
          /\ ~BandsDefined(stats) => signal = NULL

\* C20: the signal of detectBreakout for a window of at least 2 candles, and
\* the signal of every OK snapshot of analyzeVolatility, is BULLISH_BREAKOUT
\* iff the last close is above its upper band, the close before is not above
\* its upper band and some of the 10 bars before the last was SQUEEZE or
\* TIGHT_SQUEEZE; BEARISH_BREAKOUT iff the last close is below its lower band,
\* the close before is not below its lower band and the same squeeze holds;
\* null otherwise and whenever a band value of the two bars is null.
C20_BreakoutSignalIff ==
    /\ (Returned(lastCall, "detectBreakout") /\ Len(lastCall.arg.candles) >= 2)
          => SignalAsDue(lastCall.arg.candles, lastCall.ret)
    /\ (Returned(lastCall, "analyzeVolatility") /\ ~ShortWindow(lastCall))
          => SignalAsDue(lastCall.arg.candles, lastCall.ret.signal)

\* detectBreakout has returned a bullish breakout for a window whose only
\* squeeze bar among the 10 before the last is the earliest of them
C20_Witness ==
    /\ Returned(lastCall, "detectBreakout")
    /\ lastCall.ret = "BULLISH_BREAKOUT"
    /\ LET states == SqueezeStates(BandStats(Closes(lastCall.arg.candles)))
       IN /\ IsSqueeze(states[Len(states) - 10])
          /\ \A k \in 1..9 : ~IsSqueeze(states[Len(states) - k])

\* the two windows hold the same candles but for the volumes
SameButVolumes(candles, other) ==
    /\ Len(candles) = Len(other)
    /\ \A i \in 1..Len(candles) : [candles[i] EXCEPT !.volume = 0] = [other[i] EXCEPT !.volume = 0]

\* the volume of the last candle is at least 1.5 times the mean volume of the
\* last 20 candles, and that mean is defined and not 0
SurgeDue(candles) ==
    /\ Len(candles) >= 20
    /\ SumFromTo(Volumes(candles), Len(candles) - 19, Len(candles)) # 0
    /\ 40 * candles[Len(candles)].volume
          >= 3 * SumFromTo(Volumes(candles), Len(candles) - 19, Len(candles))

\* C21: two windows that are identical except for the candle volumes get the
\* same signal from analyzeVolatility, and the volumeSurge of a snapshot is
\* true exactly when the volume ratio of the last candle is defined and is
\* at least 1.5.
C21_VolumeDoesNotGateSignal ==
    Returned(lastCall, "analyzeVolatility twice") =>
        /\ SameButVolumes(lastCall.arg.candles, lastCall.arg.other)
              => lastCall.ret[1].signal = lastCall.ret[2].signal
        /\ lastCall.ret[1].volumeSurge <=> SurgeDue(lastCall.arg.candles)
        /\ lastCall.ret[2].volumeSurge <=> SurgeDue(lastCall.arg.other)

\* a bullish breakout is reported for a history both with a volume ratio of
\* exactly 1.5 (a surge) and with no volume at all (no ratio, no surge)
C21_Witness ==
    /\ Returned(lastCall, "analyzeVolatility twice")
    /\ lastCall.arg.candles # lastCall.arg.other
    /\ lastCall.ret[1].signal = "BULLISH_BREAKOUT" /\ lastCall.ret[1].volumeSurge
    /\ 40 * lastCall.arg.candles[Len(lastCall.arg.candles)].volume
         = 3 * SumFromTo(Volumes(lastCall.arg.candles), Len(lastCall.arg.candles) - 19,
                         Len(lastCall.arg.candles))
    /\ lastCall.ret[2].signal = "BULLISH_BREAKOUT" /\ ~lastCall.ret[2].volumeSurge
    /\ \A i \in 1..Len(lastCall.arg.other) : lastCall.arg.other[i].volume = 0

\* the number of consecutive SQUEEZE or TIGHT_SQUEEZE bars that end at the bar
\* before the last one
CompressionBefore(squeezeStates) ==
    CHOOSE k \in 0..(Len(squeezeStates) - 1) :
        /\ \A j \in 1..k : IsSqueeze(squeezeStates[Len(squeezeStates) - j])
        /\ k < Len(squeezeStates) - 1 => ~IsSqueeze(squeezeStates[Len(squeezeStates) - k - 1])

\* C22: when the snapshot of analyzeVolatility carries a breakout signal, its
\* squeezeBars is the number of consecutive SQUEEZE or TIGHT_SQUEEZE bars
\* ending at the bar just before the current one (the regime history without
\* the current bar).
C22_SqueezeBarsExcludeCurrentBar ==
    (/\ Returned(lastCall, "analyzeVolatility") /\ ~ShortWindow(lastCall)
     /\ lastCall.ret.signal # NULL)
    => lastCall.ret.squeezeBars
         = CompressionBefore(SqueezeStates(BandStats(Closes(lastCall.arg.candles))))

\* the values of the series that are not null among the up to 100 that end at
\* index i (0-based, as the claim counts; the sequence is 1-based)
NonNullWindow(series, i) ==
    {j \in Max(0, i - 99)..i : series[j + 1] # <<NullNum, NullNum>>}

\* the rank is the number 100 * countLess / den
RankIs(rank, countLess, den) ==
    rank # <<NullNum, NullNum>> /\ rank[1] * den = countLess * rank[2]

\* what the claim asks of the rank at index i (0-based)
RankAsClaimed(series, i, rank) ==
    IF \/ i < 100 - 1
       \/ series[i + 1] = <<NullNum, NullNum>>
       \/ Cardinality(NonNullWindow(series, i)) < 2
    THEN rank = <<NullNum, NullNum>>
    ELSE RankIs(rank,
                Cardinality({j \in NonNullWindow(series, i) : WidthLess(series, j + 1, i + 1)}),
                Cardinality(NonNullWindow(series, i)) - 1)

\* C25: percentileRank(series, 100), in src/lib/indicators.ts and in the
\* indicators module built on trading-signals, yields null at index i when
\* i < 99, when series[i] is null or when fewer than 2 values of the trailing
\* window are not null; otherwise 100 * (number of window values strictly
\* less than series[i]) / (n - 1), n the number of window values not null.
C25_PercentileRankFormula ==
    (lastCall.done /\ lastCall.op \in {"percentileRank", "percentileRank (trading-signals)"})
    => \A i \in 0..(Len(lastCall.arg) - 1) :
          RankAsClaimed(lastCall.arg, i, lastCall.ret[i + 1])

----------------------------------------------------------------------------
(* Properties of a key fed bar by bar (checked under SpecScenario) *)

\* C23: for the window built from 25 flat candles closing at 100 followed by
\* 20 bars whose closes oscillate by 0.01, analysed as the bars arrive, the
\* snapshot eventually reports TIGHT_SQUEEZE with squeezeBars equal to the
\* number of consecutive compressed bars (at least the one bar reported).
C23_ScenarioReachesTightSqueeze ==
    <>(/\ lastCall.done
       /\ lastCall.ret.squeezeState = "TIGHT_SQUEEZE"
       /\ lastCall.ret.squeezeBars >= 1)

----------------------------------------------------------------------------
(* Properties of a key whose bars arrive (checked under SpecBars) *)

\* C24: from one bar-close update of a key to the next, the squeezeBars of the
\* snapshot does not decrease when the new latest bar is in SQUEEZE or
\* TIGHT_SQUEEZE, and it is 0 when the new latest bar is NORMAL, EXPANSION
\* or N/A, also when the window of MAX_CANDLES candles slides.
C24_SqueezeBarsMonotone ==
    [][(/\ lastCall.op = "analyzeFromStore" /\ lastCall.arg.isNewCandle
        /\ lastCall'.op = "analyzeFromStore" /\ lastCall'.arg.isNewCandle)
        => IF IsSqueeze(lastCall'.ret.squeezeState)
           THEN lastCall'.ret.squeezeBars >= lastCall.ret.squeezeBars
           ELSE lastCall'.ret.squeezeBars = 0]_vars

----------------------------------------------------------------------------
(* Properties of a backfill call (checked under SpecCall) *)

\* the symbols that have a fetch in flight
SymbolsInFlight(call) == IF call = <<>> THEN {} ELSE {key[1] : key \in call.pending}

\* the fetches the step has started
Started(before, after) ==
    IF after = <<>> THEN {}
    ELSE IF before = <<>> THEN after.pending
    ELSE after.pending \ before.pending

\* the position of a symbol in the list of the call
PositionOf(call, symbol) == CHOOSE i \in 1..Len(call.symbols) : call.symbols[i] = symbol

\* C26: during a call of initializeCandleStore or analyzeMultipleSymbols at
\* most 5 symbols have fetches in flight at any moment; a step that starts
\* fetches starts them for every timeframe of each symbol it starts, starts
\* them only when no fetch of an earlier batch is left in flight, and every
\* symbol before those it starts has all its results.
C26_BoundedBackfillConcurrency ==
    /\ [](Cardinality(SymbolsInFlight(CallInFlight)) <= 5)
    /\ [][LET before == CallInFlight
              after == CallInFlight'
              started == Started(before, after)
          IN started # {} =>
               /\ after.pending = started
               /\ \A key \in started :
                     /\ \A j \in 1..Len(after.timeframes) :
                           <<key[1], after.timeframes[j]>> \in started
                     /\ \A i \in 1..(PositionOf(after, key[1]) - 1) :
                           i < after.batchStart =>
                             \A j \in 1..Len(after.timeframes) :
                               <<after.symbols[i], after.timeframes[j]>>
                                 \in DOMAIN after.results]_vars

\* the second batch of a call is in flight: the sixth symbol has a fetch
\* pending for each timeframe and the five symbols before it have answered
C26_Witness ==
    /\ CallInFlight # <<>>
    /\ CallInFlight.batchStart = 6
    /\ CallInFlight.pending = {<<"DOGEUSD", "1m">>, <<"DOGEUSD", "5m">>}
    /\ Cardinality(DOMAIN CallInFlight.results) >= 10

----------------------------------------------------------------------------
(* Properties of the streaming client (checked under SpecSocket) *)

\* the step is the onopen of a WebSocket that attemptReconnect created, after
\* the connection the page asked for had been established and was lost
ReconnectSucceeds ==
    \E i \in 1..Len(deltaWebSocket.sockets) :
        /\ wsInitialized
        /\ ~deltaWebSocket.sockets[i].awaited
        /\ deltaWebSocket.sockets[i].readyState = "CONNECTING"
        /\ deltaWebSocket'.sockets[i].readyState = "OPEN"

\* C28: when a WebSocket opened by the automatic reconnect after an
\* unintentional drop opens, the status callback registered with connect()
\* is invoked with true: the page's wsConnected is true after the step.
C28_ReconnectReportsConnected == [][ReconnectSucceeds => wsConnected']_vars

----------------------------------------------------------------------------
(* Properties of the streamed candles (checked under SpecStream) *)

\* C27: every candle held in a stored window has open, high, low, close and
\* volume all strictly greater than 0, whether it came from a historical
\* batch or from a streaming tick applied by updateCandle.
C27_StoredCandlesArePositive ==
    \A symbol \in DOMAIN candleStore : \A timeframe \in DOMAIN candleStore[symbol] :
        \A i \in 1..Len(candleStore[symbol][timeframe]) :
            LET c == candleStore[symbol][timeframe][i]
            IN c.open > 0 /\ c.high > 0 /\ c.low > 0 /\ c.close > 0 /\ c.volume > 0

----------------------------------------------------------------------------
(* Properties of a key under ticks and refreshes (checked under SpecReload) *)

\* C29: for a key, under any interleaving of streaming ticks and historical
\* refreshes, updateCandle returns true (a new candle was produced) at most
\* once for any given candle time.
C29_NewCandleReportedOnce ==
    \A key \in DOMAIN newCandleReports : newCandleReports[key] <= 1

----------------------------------------------------------------------------
(* Properties of removed symbols (checked under SpecPage) *)

\* C30: a symbol that handleRemoveSymbol has taken off the watchlist is held
\* neither by the candle store nor by screenerData until it is added again,
\* also when a backfill started before the removal completes after it.
C30_RemovedSymbolStaysCleared ==
    \A symbol \in Symbols :
        ~Includes(watchlist, symbol) =>
            symbol \notin DOMAIN candleStore /\ symbol \notin DOMAIN screenerData

----------------------------------------------------------------------------
(* Properties of the whole snapshot (checked under SpecAnalysis) *)

\* C31: whenever analyzeVolatility returns status OK for a window of fewer
\* than 100 candles (20 to 99), bbWidthPercentile and atrPercentile are null,
\* squeezeState is 'N/A', squeezeBars is 0 and signal is null.
C31_ShortHistoryHasNoRegime ==
    (/\ Returned(lastCall, "analyzeVolatility (all fields)")
     /\ Len(lastCall.arg.candles) < LOOKBACK_PERIOD)
    => /\ lastCall.ret.status = "OK"
       /\ lastCall.ret.bbWidthPercentile = NullNum
       /\ lastCall.ret.atrPercentile = "null"
       /\ lastCall.ret.squeezeState = "N/A"
       /\ lastCall.ret.squeezeBars = 0
       /\ lastCall.ret.signal = NULL

\* analyzeVolatility has returned for a window of 99 candles whose last close
\* is above the upper band: the snapshot is OK and has bands and an ATR%
C31_Witness ==
    /\ Returned(lastCall, "analyzeVolatility (all fields)")
    /\ Len(lastCall.arg.candles) = LOOKBACK_PERIOD - 1
    /\ lastCall.ret.status = "OK"
    /\ lastCall.ret.price = 8
    /\ lastCall.ret.bbUpper = "number" /\ lastCall.ret.atrPct = "number"

----------------------------------------------------------------------------
(* Properties of the reconnect loop (checked under SpecRetry) *)

\* the step schedules a reconnect
ReconnectScheduled == deltaWebSocket'.timers = deltaWebSocket.timers + 1

\* the step is the onopen of a WebSocket
ConnectionOpens ==
    \E i \in 1..Len(deltaWebSocket.sockets) :
        /\ deltaWebSocket.sockets[i].readyState = "CONNECTING"
        /\ deltaWebSocket'.sockets[i].readyState = "OPEN"

\* C32: reconnectAttempts stays within 0..10; it increases by exactly one
\* with every reconnect that is scheduled and changes otherwise only when a
\* connection opens, which resets it to 0; when it has reached
\* maxReconnectAttempts no reconnect is scheduled.
C32_ReconnectAttemptsBounded ==
    /\ [](deltaWebSocket.reconnectAttempts \in 0..maxReconnectAttempts)
    /\ [][/\ ReconnectScheduled <=>
                deltaWebSocket'.reconnectAttempts = deltaWebSocket.reconnectAttempts + 1
          /\ ConnectionOpens => deltaWebSocket'.reconnectAttempts = 0
          /\ (~ReconnectScheduled /\ ~ConnectionOpens) => UNCHANGED deltaWebSocket.reconnectAttempts
          /\ deltaWebSocket.reconnectAttempts = maxReconnectAttempts
                => ~ReconnectScheduled]_vars

\* the eleventh consecutive connection has failed: ten reconnects were
\* scheduled, the counter is at maxReconnectAttempts and no timer is pending
C32_Witness ==
    /\ deltaWebSocket.reconnectAttempts = maxReconnectAttempts
    /\ deltaWebSocket.timers = 0
    /\ Len(deltaWebSocket.sockets) = maxReconnectAttempts + 1
    /\ \A i \in 1..Len(deltaWebSocket.sockets) : deltaWebSocket.sockets[i].readyState = "CLOSED"

----------------------------------------------------------------------------
(* Properties of disconnect() (checked under SpecSocket) *)

\* the step is a connect() of the caller: the page awaits its promise
CallerConnects ==
    /\ Len(deltaWebSocket'.sockets) = Len(deltaWebSocket.sockets) + 1
    /\ deltaWebSocket'.sockets[Len(deltaWebSocket'.sockets)].awaited

\* C33: from disconnect() until the caller calls connect() again, no step
\* creates a WebSocket and no step schedules a reconnect: neither a pending
\* reconnect timer nor the close event of the socket that was closed.
C33_NoReconnectAfterDisconnect ==
    [][(deltaWebSocket.isIntentionallyClosed /\ ~CallerConnects)
         => /\ Len(deltaWebSocket'.sockets) = Len(deltaWebSocket.sockets)
            /\ deltaWebSocket'.timers <= deltaWebSocket.timers
            /\ deltaWebSocket'.reconnectAttempts <= deltaWebSocket.reconnectAttempts
            /\ deltaWebSocket'.isIntentionallyClosed]_vars

\* a connection was established and dropped, a reconnect was scheduled, then
\* disconnect() closed the reconnected socket: the close event has arrived
\* and no timer is left, and there is no socket beyond those
C33_Witness ==
    /\ deltaWebSocket.isIntentionallyClosed
    /\ deltaWebSocket.reconnectAttempts > 0
    /\ deltaWebSocket.timers = 0
    /\ deltaWebSocket.ws = 0
    /\ \A i \in 1..Len(deltaWebSocket.sockets) : deltaWebSocket.sockets[i].readyState = "CLOSED"

----------------------------------------------------------------------------
(* Properties of a refresh without candles (checked under Spec) *)

\* the step is a fetchAndStoreCandles whose request returned no candle
EmptyRefresh ==
    /\ lastCall'.op = "fetchAndStoreCandles"
    /\ lastCall' # lastCall
    /\ Len(Fetched(lastCall'.batch)) = 0

\* C34: a fetchAndStoreCandles that gets an empty batch leaves the stored
\* window of every key as it was, so the candles analyzeFromStore reads for
\* the key (getStoredCandles) are those it read before the refresh.
C34_EmptyRefreshKeepsWindow ==
    [][EmptyRefresh
         => /\ candleStore' = candleStore
            /\ \A s \in Symbols, tf \in Timeframes :
                  /\ HasWindow(candleStore', s, tf) <=> HasWindow(candleStore, s, tf)
                  /\ HasWindow(candleStore, s, tf)
                       => candleStore'[s][tf] = candleStore[s][tf]]_vars

\* an empty refresh has run for a key that holds a full window
C34_Witness ==
    /\ lastCall.op = "fetchAndStoreCandles"
    /\ Len(Fetched(lastCall.batch)) = 0
    /\ HasWindow(candleStore, lastCall.symbol, lastCall.timeframe)
    /\ Len(candleStore[lastCall.symbol][lastCall.timeframe]) = MAX_CANDLES

----------------------------------------------------------------------------
(* Properties of the outlier filter (checked under SpecAnalysis) *)

\* the value at position k (from 0) of the values in ascending order
OrderStatistic(values, k) ==
    CHOOSE v \in {values[i] : i \in 1..Len(values)} :
        /\ Cardinality({i \in 1..Len(values) : values[i] < v}) <= k
        /\ Cardinality({i \in 1..Len(values) : values[i] <= v}) > k

\* the median close of the filter: the middle close, the upper of the two
\* middle closes when the batch has an even number of candles
MedianClose(candles) == OrderStatistic(Closes(candles), Len(candles) \div 2)

\* the median, taken the same way, of the distances of the closes from it
MedianAbsoluteDeviation(candles) ==
    OrderStatistic(Deviations(candles, MedianClose(candles)), Len(candles) \div 2)

\* the valid candles of the answer in time order: what the filter is given
FilterInput(b) == SortByTime(ParsedValid(RawBatch(b[1], b[2])))

\* C35: the outlier filter returns the batch unchanged when it has 10 or
\* fewer candles or the MAD of the closes is 0; otherwise it returns exactly
\* the candles with |close - median| <= 10 * MAD, in ascending time order.
C35_OutlierFilter ==
    Returned(lastCall, "fetchCandles") =>
        LET batch == FilterInput(lastCall.arg)
            out == lastCall.ret
        IN IF Len(batch) <= 10 \/ MedianAbsoluteDeviation(batch) = 0
           THEN out = batch
           ELSE LET median == MedianClose(batch)
                    mad == MedianAbsoluteDeviation(batch)
                    kept == {i \in 1..Len(batch) :
                                Abs(batch[i].close - median) <= 10 * mad}
                IN /\ Len(out) = Cardinality(kept)
                   /\ {out[j] : j \in 1..Len(out)} = {batch[i] : i \in kept}
                   /\ \A j \in 1..Len(out) - 1 : out[j].time < out[j + 1].time

\* a batch of more than 10 candles lost its spike and kept a candle whose
\* close lies exactly 10 * MAD from the median
C35_Witness ==
    /\ Returned(lastCall, "fetchCandles")
    /\ Len(FilterInput(lastCall.arg)) > 10
    /\ Len(lastCall.ret) < Len(FilterInput(lastCall.arg))
    /\ \E j \in 1..Len(lastCall.ret) :
          Abs(lastCall.ret[j].close - MedianClose(FilterInput(lastCall.arg)))
            = 10 * MedianAbsoluteDeviation(FilterInput(lastCall.arg))

----------------------------------------------------------------------------
(* Properties of the indicator series (checked under SpecAnalysis) *)

\* the series is null at every index with fewer than period values of history
NullBelow(series, period) ==
    \A i \in 1..Len(series) : i < period => series[i] = "null"

\* the series derived from an SMA and a standard deviation are null below
\* their period
WindowedSeriesWarmUp ==
    Returned(lastCall, "indicator series") =>
        /\ NullBelow(lastCall.ret.bbMiddle, BB_PERIOD)
        /\ NullBelow(lastCall.ret.bbUpper, BB_PERIOD)
        /\ NullBelow(lastCall.ret.bbLower, BB_PERIOD)
        /\ NullBelow(lastCall.ret.bbWidthPct, BB_PERIOD)
        /\ NullBelow(lastCall.ret.volumeRatio, 20)

\* C36: every series derived from an SMA, an EMA or a standard deviation of
\* period p (the Bollinger bands and their width, ATR and ATR%, the volume
\* ratio) is null at the indices below p - 1.
C36_NullBeforePeriod ==
    /\ WindowedSeriesWarmUp
    /\ Returned(lastCall, "indicator series") =>
          /\ NullBelow(lastCall.ret.atr, ATR_PERIOD)
          /\ NullBelow(lastCall.ret.atrPct, ATR_PERIOD)

----------------------------------------------------------------------------
(* Properties of the numbers of a snapshot (checked under SpecAnalysis) *)

\* the fields of a snapshot that analyzeVolatility derives from a quotient
QuotientFields ==
    {"bbWidthPct", "atrPct", "atrPercentile", "bbUpper", "bbLower", "bbMiddle",
     "bbPercentB", "volumeRatio"}

\* C37: every numeric field of a snapshot is null or a finite number, never
\* NaN or an infinity; a field whose denominator (the Bollinger middle, upper
\* minus lower, the SMA of the volumes, the close) is zero is null.
C37_NoNaNInSnapshot ==
    Returned(lastCall, "analyzeVolatility (all fields)") =>
        LET candles == lastCall.arg.candles
            lastIdx == Len(candles)
            stats == BandStats(Closes(candles))
            snapshot == lastCall.ret
        IN /\ \A f \in QuotientFields : snapshot[f] \in {"null", "number"}
           /\ snapshot.price \in Nat
           /\ snapshot.timestamp \in Nat
           /\ snapshot.squeezeBars \in Nat
           /\ snapshot.bbWidthPercentile = NullNum \/ snapshot.bbWidthPercentile \in 0..1000
           /\ stats[lastIdx][1] = 0 => snapshot.bbWidthPct = "null"
           /\ stats[lastIdx][2] = 0 => snapshot.bbPercentB = "null"
           /\ SumFromTo(Volumes(candles), lastIdx - 19, lastIdx) = 0
                => snapshot.volumeRatio = "null"
           /\ candles[lastIdx].close = 0 => snapshot.atrPct = "null"

\* the snapshot of a window whose last BB_PERIOD candles are all zeros: the
\* middle band, the width of the bands, the average volume and the close are
\* 0, and the four quotients are null next to bands that are numbers
C37_Witness ==
    /\ Returned(lastCall, "analyzeVolatility (all fields)")
    /\ lastCall.ret.status = "OK"
    /\ BandStats(Closes(lastCall.arg.candles))[Len(lastCall.arg.candles)] = <<0, 0>>
    /\ lastCall.ret.bbMiddle = "number"
    /\ lastCall.ret.bbWidthPct = "null"
    /\ lastCall.ret.bbPercentB = "null"
    /\ lastCall.ret.volumeRatio = "null"
    /\ lastCall.ret.atrPct = "null"

----------------------------------------------------------------------------
(* Properties of the regime (checked under SpecAnalysis) *)

\* C38: two windows with the same Bollinger-width percentile series get the
\* same squeezeState and the same squeezeBars, whatever their ATR
\* percentiles are.
C38_RegimeIgnoresAtr ==
    Returned(lastCall, "regime of two windows") =>
        /\ lastCall.ret[1].squeezeState = lastCall.ret[2].squeezeState
        /\ lastCall.ret[1].squeezeBars = lastCall.ret[2].squeezeBars

\* two windows in a squeeze for two bars, one with low and one with high ATR
\* percentiles, classified by the legacy function that is handed both
C38_Witness ==
    /\ Returned(lastCall, "regime of two windows")
    /\ lastCall.arg.impl = "indicators.js"
    /\ lastCall.arg.atrPercentile[1] = <<(<<5, 99>>), (<<5, 99>>)>>
    /\ lastCall.arg.atrPercentile[2] = <<(<<90, 99>>), (<<NullNum, NullNum>>)>>
    /\ lastCall.ret[1].squeezeState = "TIGHT_SQUEEZE"
    /\ lastCall.ret[2].squeezeBars = 2

----------------------------------------------------------------------------
(* Properties of the percentile rank (checked under SpecAnalysis) *)

\* C39: percentileRank gives the same ranks for a series and for the series
\* with a constant added to every value, or with every value replaced by its
\* image under a strictly increasing function.
C39_RankInvariantUnderShift ==
    Returned(lastCall, "percentileRank of two series") =>
        lastCall.ret[1] = lastCall.ret[2]

\* a series with nulls and distinct values, longer than the lookback, whose
\* squares have the ranks of the series: some rank is neither null nor 0
C39_Witness ==
    /\ Returned(lastCall, "percentileRank of two series")
    /\ lastCall.arg.transform = "square"
    /\ Len(lastCall.arg.data) > LOOKBACK_PERIOD
    /\ \E i, j \in 1..Len(lastCall.arg.data) :
          /\ lastCall.ret[2][i][1] = NullNum
          /\ lastCall.ret[2][j][1] > 0
          /\ lastCall.ret[2][j][1] < lastCall.ret[2][j][2]

----------------------------------------------------------------------------
(* Properties of the legacy refresh (checked under SpecLegacyThrows) *)

\* the step is a call of refreshScreenerData made while a refresh is running
CalledWhileLoading ==
    /\ app.isLoading
    /\ lastRefresh'.step \in {"skipped", "added"}

\* C40: refreshScreenerData is not re-entered: a call made while isLoading
\* is set starts no fetch, checks no alerts and changes neither screenerData
\* nor previousStates; a fetch is started only when none is running; and
\* isLoading is false after a refresh has finished or thrown.
C40_RefreshNotReentrant ==
    /\ [](lastRefresh.step \in {"done", "failed"} => ~app.isLoading)
    /\ [][/\ CalledWhileLoading
             => /\ app'.pending = app.pending
                /\ app'.isLoading
                /\ app'.screenerData = app.screenerData
                /\ app'.previousStates = app.previousStates
                /\ storedAlerts' = storedAlerts
          /\ (app'.isLoading /\ app'.pending # app.pending) => ~app.isLoading
          /\ (app.isLoading /\ ~app'.isLoading)
                => lastRefresh'.step \in {"done", "failed"}]_vars

\* addSymbolToWatchlist called refreshScreenerData while the first refresh
\* was still waiting for its answers: the fetch running is the one for the
\* watchlist without the new symbol
C40_Witness ==
    /\ lastRefresh.step = "added"
    /\ app.isLoading
    /\ Len(app.pending) > 0
    /\ Len(app.watchlist) > Len(app.pending)

====
